---- MODULE Spec2Model ----
(***************************************************************************)
(* Model of the secure image-delivery pipeline of devkit:                  *)
(*   devkit/docker.py  secure_pipeline and the stage functions it calls,   *)
(*   devkit/cli.py     the `secure` command that turns its result mapping  *)
(*                     into a process exit code.                           *)
(* Strings that the code takes apart (the version, the tags) are sequences *)
(* of one-character strings; every other text is an opaque token.          *)
(***************************************************************************)
EXTENDS Integers, Sequences, FiniteSets, TLC

\* ------------------------------------------------------------------ bounds
\* longest list of policy files given on the command line
MaxPolicies == 2
\* longest version string handed to bump_version
MaxVersionLen == 6
\* largest major, minor or patch number of the versions that are tagged
MaxComponent == 10
\* most result groups of a scan report, most vulnerabilities of a group
MaxGroups == 2
MaxVulns == 1
\* last reading of the clock, in ticks
MaxTicks == 3
\* longest content of devkit/__init__.py
MaxFileLen == 6

\* ----------------------------------------------------------------- strings
\* str.split(sep) for a one-character separator: the pieces between the
\* separators, one more than there are separators
split(s, sep) ==
    LET at == {i \in 1..Len(s) : s[i] = sep}
        n == Cardinality(at)
        cut(k) == IF k = 0 THEN 0
                  ELSE IF k = n + 1 THEN Len(s) + 1
                  ELSE CHOOSE i \in at : Cardinality({j \in at : j < i}) = k - 1
    IN  [k \in 1..(n + 1) |-> SubSeq(s, cut(k - 1) + 1, cut(k) - 1)]

Colon == <<":">>
Dot == <<".">>
LatestStr == <<"l", "a", "t", "e", "s", "t">>

\* values devkit.__version__ may hold: M.m.p, M.m, and one without any '.'
Versions == { <<"1", ".", "2", ".", "3">>, <<"1", ".", "2">>, <<"d", "e", "v">> }

\* the registry path given with --registry
RegistryName == <<"r">>

\* the policy file names that can be given with --policy
PolicyNames == {"p1", "p2"}

RECURSIVE SeqsUpTo(_, _)
SeqsUpTo(S, n) ==
    IF n = 0 THEN {<<>>}
    ELSE LET shorter == SeqsUpTo(S, n - 1)
         IN  shorter \cup {Append(q, x) : q \in shorter, x \in S}

\* the lists of policy files that can be given, in any order
PolicyFileLists == SeqsUpTo(PolicyNames, MaxPolicies)

Range(q) == {q[i] : i \in 1..Len(q)}

\* dict[key] = value
Put(d, k, v) == [x \in DOMAIN d \cup {k} |-> IF x = k THEN v ELSE d[x]]

\* the elements of q whose index is in S, in order
RECURSIVE Sub(_, _, _)
Sub(q, S, i) ==
    IF i > Len(q) THEN <<>>
    ELSE (IF i \in S THEN <<q[i]>> ELSE <<>>) \o Sub(q, S, i + 1)

\* ------------------------------------------------- docker.py: stage functions
\* Each stage function is an operator of the outcome `o` of the external
\* commands it runs; it yields whether it raised, what it returned and the
\* commands it issued.

\* generate_docker_tags: IndexError when the version holds no '.'
\* the major tag put before the minor tag
generate_docker_tags_major_before_minor(base_name, version, include_latest, chainguard_tags, date_str, git_ok, git_hash) ==
    LET version_parts == split(version, ".")
    IN  IF Len(version_parts) < 2
        THEN [raised |-> TRUE, tags |-> <<>>]
        ELSE [raised |-> FALSE,
              tags |->
                << base_name \o Colon \o version,
                   base_name \o Colon \o version_parts[1],
                   base_name \o Colon \o version_parts[1] \o Dot \o version_parts[2] >>
                \o (IF include_latest THEN << base_name \o Colon \o LatestStr >> ELSE <<>>)]

generate_docker_tags(base_name, version, include_latest, chainguard_tags, date_str, git_ok, git_hash) ==
    LET version_parts == split(version, ".")
    IN  IF Len(version_parts) < 2
        THEN [raised |-> TRUE, tags |-> <<>>]
        ELSE [raised |-> FALSE,
              tags |->
                << base_name \o Colon \o version,
                   base_name \o Colon \o version_parts[1] \o Dot \o version_parts[2] >>
                \o << base_name \o Colon \o version_parts[1] >>
                \o (IF include_latest THEN << base_name \o Colon \o LatestStr >> ELSE <<>>)
                \o (IF chainguard_tags
                    THEN << base_name \o Colon \o date_str >>
                         \o (IF git_ok THEN << base_name \o Colon \o git_hash >> ELSE <<>>)
                    ELSE <<>>)]

BuildOutcomes == {"built", "docker_missing", "dockerfile_missing", "build_failed"}

\* a build that is started before the Dockerfile is looked for
build_docker_image_builds_first(docker_installed, dockerfile_exists, build_ok) ==
    IF ~docker_installed
    THEN [raised |-> TRUE, output |-> "Docker is not installed or not in PATH",
          cmds |-> <<"docker --version">>]
    ELSE IF ~dockerfile_exists
    THEN [raised |-> TRUE, output |-> "Dockerfile not found",
          cmds |-> <<"docker --version", "docker build">>]
    ELSE IF ~build_ok
    THEN [raised |-> TRUE, output |-> "Docker build failed",
          cmds |-> <<"docker --version", "docker build">>]
    ELSE [raised |-> FALSE, output |-> "image",
          cmds |-> <<"docker --version", "docker build">>]

\* build_docker_image by what it finds: check_docker_installed() (which runs
\* docker --version), os.path.exists(dockerfile_path), the exit of docker build
build_docker_image_checks(docker_installed, dockerfile_exists, build_ok) ==
    IF ~docker_installed
    THEN [raised |-> TRUE, output |-> "Docker is not installed or not in PATH",
          cmds |-> <<"docker --version">>]
    ELSE IF ~dockerfile_exists
    THEN [raised |-> TRUE, output |-> "Dockerfile not found",
          cmds |-> <<"docker --version">>]
    ELSE IF ~build_ok
    THEN [raised |-> TRUE, output |-> "Docker build failed",
          cmds |-> <<"docker --version", "docker build">>]
    ELSE [raised |-> FALSE, output |-> "image",
          cmds |-> <<"docker --version", "docker build">>]

build_docker_image(o) ==
    build_docker_image_checks(o # "docker_missing", o # "dockerfile_missing", o # "build_failed")

TestOutcomes == {"passed", "failed", "docker_missing"}

test_docker_image(o) ==
    CASE o = "docker_missing" ->
            [raised |-> TRUE, success |-> FALSE,
             output |-> "Docker is not installed or not in PATH",
             cmds |-> <<"docker --version">>]
      [] o = "failed" ->
            [raised |-> FALSE, success |-> FALSE, output |-> "Error testing Docker image",
             cmds |-> <<"docker --version", "docker run", "docker rm">>]
      [] OTHER ->
            [raised |-> FALSE, success |-> TRUE, output |-> "stdout",
             cmds |-> <<"docker --version", "docker run">>]

ScanOutcomes == {"clean", "critical", "nonzero_exit", "trivy_missing", "bad_json"}

\* scan_docker_image(image, output_format="json")
\* the severity levels that are counted
SeverityLevels == {"CRITICAL", "HIGH", "MEDIUM", "LOW", "UNKNOWN"}

\* the loop over the vulnerabilities of one result group; a vulnerability is
\* its "Severity", "" when the key is missing
RECURSIVE count_group(_, _, _)
count_group(vuln_counts, vulns, i) ==
    IF i > Len(vulns) THEN vuln_counts
    ELSE LET severity == IF vulns[i] = "" THEN "UNKNOWN" ELSE vulns[i]
         IN  count_group(IF severity \in DOMAIN vuln_counts
                         THEN [vuln_counts EXCEPT ![severity] = @ + 1]
                         ELSE vuln_counts,
                         vulns, i + 1)

\* the loop over the result groups
RECURSIVE count_results(_, _, _)
count_results(vuln_counts, scan_data, g) ==
    IF g > Len(scan_data) THEN vuln_counts
    ELSE count_results(count_group(vuln_counts, scan_data[g], 1), scan_data, g + 1)

\* a count that stops after the first result group
vulnerability_counts_first_group_only(scan_data) ==
    IF scan_data = <<>> THEN [l \in SeverityLevels |-> 0]
    ELSE count_group([l \in SeverityLevels |-> 0], scan_data[1], 1)

vulnerability_counts(scan_data) ==
    count_results([l \in SeverityLevels |-> 0], scan_data, 1)

\* what scan_docker_image returns in JSON mode for a report trivy printed
scan_json(scan_data) ==
    LET vuln_counts == vulnerability_counts(scan_data)
    IN  [raised |-> FALSE, passed |-> vuln_counts["CRITICAL"] = 0,
         vulnerability_counts |-> vuln_counts]

\* scan_docker_image in JSON mode by what trivy printed: json.loads is not
\* inside a handler for its error, so output that is not JSON raises
scan_stdout(decodable, scan_data) ==
    IF decodable THEN scan_json(scan_data)
    ELSE [raised |-> TRUE, passed |-> FALSE,
          vulnerability_counts |-> [l \in SeverityLevels |-> 0]]

scan_docker_image(o) ==
    CASE o = "trivy_missing" ->
            [raised |-> TRUE, success |-> FALSE,
             output |-> "Trivy is not installed or not in PATH",
             cmds |-> <<"docker --version", "trivy --version">>]
      [] o = "nonzero_exit" ->
            [raised |-> FALSE, success |-> FALSE, output |-> "Error scanning Docker image",
             cmds |-> <<"docker --version", "trivy --version", "trivy image">>]
      [] o = "bad_json" ->
            [raised |-> scan_stdout(FALSE, <<>>).raised, success |-> FALSE,
             output |-> "JSONDecodeError",
             cmds |-> <<"docker --version", "trivy --version", "trivy image">>]
      [] o = "critical" ->
            [raised |-> FALSE, success |-> scan_json(<<<<"CRITICAL">>>>).passed,
             output |-> "vulnerability_counts",
             cmds |-> <<"docker --version", "trivy --version", "trivy image">>]
      [] OTHER ->
            [raised |-> FALSE, success |-> scan_json(<<>>).passed,
             output |-> "vulnerability_counts",
             cmds |-> <<"docker --version", "trivy --version", "trivy image">>]

SbomToolOutcomes == {"syft_ok", "syft_failed", "scout_ok", "scout_failed", "no_tool"}

\* a docker scout run after syft has failed
generate_sbom_falls_back_on_failure(syft_installed, scout_installed, run_ok) ==
    IF syft_installed /\ run_ok
    THEN [success |-> TRUE, output |-> "output_file",
          cmds |-> <<"syft --version", "syft">>]
    ELSE IF syft_installed
    THEN [success |-> FALSE, output |-> "Error generating SBOM with Docker Scout",
          cmds |-> <<"syft --version", "syft", "docker-scout --version", "docker scout sbom">>]
    ELSE IF scout_installed
    THEN [success |-> run_ok,
          output |-> IF run_ok THEN "output_file"
                     ELSE "Error generating SBOM with Docker Scout",
          cmds |-> <<"syft --version", "docker-scout --version", "docker scout sbom">>]
    ELSE [success |-> FALSE, output |-> "No SBOM generation tools found",
          cmds |-> <<"syft --version", "docker-scout --version">>]

\* generate_sbom by what it finds: check_tool_installed("syft"),
\* check_tool_installed("docker-scout"), the exit of the generator it runs
generate_sbom_tools(syft_installed, scout_installed, run_ok) ==
    IF syft_installed
    THEN [success |-> run_ok,
          output |-> IF run_ok THEN "output_file" ELSE "Error generating SBOM with syft",
          cmds |-> <<"syft --version", "syft">>]
    ELSE IF scout_installed
    THEN [success |-> run_ok,
          output |-> IF run_ok THEN "output_file"
                     ELSE "Error generating SBOM with Docker Scout",
          cmds |-> <<"syft --version", "docker-scout --version", "docker scout sbom">>]
    ELSE [success |-> FALSE, output |-> "No SBOM generation tools found",
          cmds |-> <<"syft --version", "docker-scout --version">>]

generate_sbom(o) ==
    generate_sbom_tools(o \in {"syft_ok", "syft_failed"}, o \in {"scout_ok", "scout_failed"},
                        o \in {"syft_ok", "scout_ok"})

SignOutcomes == {"signed", "sign_failed", "cosign_missing", "cosign_not_executable"}

\* a keyless signing that does not look for CI
sign_image_keyless_anywhere(has_key, ci, o) ==
    CASE o = "cosign_not_executable" ->
            [raised |-> TRUE, success |-> FALSE, output |-> "PermissionError",
             cmds |-> <<"cosign --version">>]
      [] o = "cosign_missing" ->
            [raised |-> FALSE, success |-> FALSE,
             output |-> "Cosign is not installed or not in PATH",
             cmds |-> <<"cosign --version">>]
      [] o = "sign_failed" ->
            [raised |-> FALSE, success |-> FALSE, output |-> "Error signing image",
             cmds |-> <<"cosign --version", "cosign sign">>]
      [] OTHER ->
            [raised |-> FALSE, success |-> TRUE, output |-> "Image signed successfully",
             cmds |-> <<"cosign --version", "cosign sign">>]

\* sign_image(image, key_path); ci: GITHUB_ACTIONS is in the environment
sign_image(has_key, ci, o) ==
    CASE o = "cosign_not_executable" ->
            [raised |-> TRUE, success |-> FALSE, output |-> "PermissionError",
             cmds |-> <<"cosign --version">>]
      [] o = "cosign_missing" ->
            [raised |-> FALSE, success |-> FALSE,
             output |-> "Cosign is not installed or not in PATH",
             cmds |-> <<"cosign --version">>]
      [] ~has_key /\ ~ci ->
            [raised |-> FALSE, success |-> FALSE,
             output |-> "Keyless signing requires CI environment or explicit key path",
             cmds |-> <<"cosign --version">>]
      [] o = "sign_failed" ->
            [raised |-> FALSE, success |-> FALSE, output |-> "Error signing image",
             cmds |-> <<"cosign --version", "cosign sign">>]
      [] OTHER ->
            [raised |-> FALSE, success |-> TRUE, output |-> "Image signed successfully",
             cmds |-> <<"cosign --version", "cosign sign">>]

VerifyOutcomes == {"verified", "verify_failed", "cosign_missing", "cosign_not_executable"}

\* verify_image_signature(image, key_path); the environment is not looked at
verify_image_signature(has_key, ci, o) ==
    CASE o = "cosign_not_executable" ->
            [raised |-> TRUE, success |-> FALSE, output |-> "PermissionError",
             cmds |-> <<"cosign --version">>]
      [] o = "cosign_missing" ->
            [raised |-> FALSE, success |-> FALSE,
             output |-> "Cosign is not installed or not in PATH",
             cmds |-> <<"cosign --version">>]
      [] o = "verify_failed" ->
            [raised |-> FALSE, success |-> FALSE, output |-> "Error verifying image signature",
             cmds |-> <<"cosign --version", "cosign verify">>]
      [] OTHER ->
            [raised |-> FALSE, success |-> TRUE, output |-> "stdout",
             cmds |-> <<"cosign --version", "cosign verify">>]

PolicyOutcomes ==
    {"pass", "rule_failed", "kyverno_missing", "bad_shape", "kyverno_failed",
     "undecodable_pass", "undecodable_fail"}

\* check_kyverno_policy(manifest, policy_file); bad_shape: the tool printed
\* JSON that is not a list of objects, so policy.get raises
check_kyverno_policy(o) ==
    CASE o = "kyverno_missing" ->
            [raised |-> FALSE, success |-> FALSE, output |-> "error",
             cmds |-> <<"kyverno --version">>]
      [] o = "bad_shape" ->
            [raised |-> TRUE, success |-> FALSE, output |-> "AttributeError",
             cmds |-> <<"kyverno --version", "kyverno test">>]
      [] o = "rule_failed" ->
            [raised |-> FALSE, success |-> FALSE, output |-> "policy_results",
             cmds |-> <<"kyverno --version", "kyverno test">>]
      [] o = "kyverno_failed" ->
            [raised |-> FALSE, success |-> FALSE, output |-> "error",
             cmds |-> <<"kyverno --version", "kyverno test">>]
      [] o \in {"undecodable_pass", "undecodable_fail"} ->
            [raised |-> FALSE, success |-> o = "undecodable_pass", output |-> "output",
             cmds |-> <<"kyverno --version", "kyverno test">>]
      [] OTHER ->
            [raised |-> FALSE, success |-> TRUE, output |-> "policy_results",
             cmds |-> <<"kyverno --version", "kyverno test">>]

\* tag_docker_image / push_docker_image: `ok` is the set of positions of
\* target_tags whose docker command exits 0
tag_docker_image(docker_present, target_tags, ok) ==
    IF ~docker_present
    THEN [raised |-> TRUE, tagged |-> <<>>, cmds |-> <<"docker --version">>]
    ELSE [raised |-> FALSE, tagged |-> Sub(target_tags, ok, 1),
          cmds |-> <<"docker --version">> \o [i \in 1..Len(target_tags) |-> "docker tag"]]

push_docker_image(docker_present, tags, ok) ==
    IF ~docker_present
    THEN [raised |-> TRUE, pushed |-> <<>>, cmds |-> <<"docker --version">>]
    ELSE [raised |-> FALSE, pushed |-> Sub(tags, ok, 1),
          cmds |-> <<"docker --version">> \o [i \in 1..Len(tags) |-> "docker push"]]

\* ------------------------------------------------------- versioning.py
DigitChars == <<"0", "1", "2", "3", "4", "5", "6", "7", "8", "9">>

Digits == Range(DigitChars)

\* a run of one or more decimal digits: what (\d+) takes
IsDigits(q) == q # <<>> /\ \A i \in 1..Len(q) : q[i] \in Digits

\* digits, dot, digits, dot, digits and nothing else
IsSemVer(s) ==
    LET parts == split(s, ".")
    IN  Len(parts) = 3 /\ \A i \in 1..3 : IsDigits(parts[i])

\* the text the groups of re.match(r'^(\d+)\.(\d+)\.(\d+)$', version) are
\* taken from, <<>> when there is no match: `$` matches at the end of the
\* string and also just before a newline that ends the string
re_match(version) ==
    IF IsSemVer(version) THEN version
    ELSE IF version # <<>> /\ version[Len(version)] = "\n"
              /\ IsSemVer(SubSeq(version, 1, Len(version) - 1))
         THEN SubSeq(version, 1, Len(version) - 1)
         ELSE <<>>

\* int() of a run of decimal digits
RECURSIVE int(_)
int(q) ==
    IF q = <<>> THEN 0
    ELSE 10 * int(SubSeq(q, 1, Len(q) - 1))
         + (CHOOSE d \in 0..9 : DigitChars[d + 1] = q[Len(q)])

\* str() of a non-negative integer, as the f-string formats it
RECURSIVE str(_)
str(n) ==
    IF n < 10 THEN <<DigitChars[n + 1]>>
    ELSE str(n \div 10) \o <<DigitChars[(n % 10) + 1]>>

parse_semantic_version(version) ==
    LET match == re_match(version)
    IN  IF match = <<>>
        THEN [raised |-> TRUE, value |-> <<>>]
        ELSE LET groups == split(match, ".")
             IN  [raised |-> FALSE,
                  value |-> <<int(groups[1]), int(groups[2]), int(groups[3])>>]

VersionBump == {"major", "minor", "patch"}

\* the clock is read in ticks of half a second
TicksPerSecond == 2

TestPrefix == <<"t", "e", "s", "t", "-">>

\* f"test-{int(time.time())}": int() drops the fraction of the second
container_name(ticks) == TestPrefix \o str(ticks \div TicksPerSecond)

bump_version(current_version, bump_type) ==
    LET parsed == parse_semantic_version(current_version)
        major == parsed.value[1]
        minor == parsed.value[2]
        patch == parsed.value[3]
    IN  IF parsed.raised THEN [raised |-> TRUE, value |-> <<>>]
        ELSE IF bump_type = "major"
        THEN [raised |-> FALSE, value |-> str(major + 1) \o Dot \o <<"0">> \o Dot \o <<"0">>]
        ELSE IF bump_type = "minor"
        THEN [raised |-> FALSE, value |-> str(major) \o Dot \o str(minor + 1) \o Dot \o <<"0">>]
        ELSE IF bump_type = "patch"
        THEN [raised |-> FALSE, value |-> str(major) \o Dot \o str(minor) \o Dot \o str(patch + 1)]
        ELSE [raised |-> TRUE, value |-> <<>>]

\* File contents are sequences of characters in which "K" stands for the
\* keyword of the pattern (__version__ in devkit/__init__.py, version in
\* setup.py) and " " for white space.
Quote == "\""

\* \s* from position i on: the first position that is not white space
RECURSIVE skip_space(_, _)
skip_space(content, i) ==
    IF i <= Len(content) /\ content[i] = " " THEN skip_space(content, i + 1) ELSE i

\* the position of the first double quote at or after i, 0 when there is none
RECURSIVE next_quote(_, _)
next_quote(content, i) ==
    IF i > Len(content) THEN 0
    ELSE IF content[i] = Quote THEN i
    ELSE next_quote(content, i + 1)

\* the last position of a match of  K\s*=\s*"[^"]+"  (spaced) or  K="[^"]+"
\* that starts at i, 0 when there is no match at i
match_end(content, i, spaced) ==
    IF content[i] # "K" THEN 0
    ELSE LET e == IF spaced THEN skip_space(content, i + 1) ELSE i + 1
         IN  IF e > Len(content) \/ content[e] # "=" THEN 0
             ELSE LET q == IF spaced THEN skip_space(content, e + 1) ELSE e + 1
                  IN  IF q > Len(content) \/ content[q] # Quote THEN 0
                      ELSE LET c == next_quote(content, q + 1)
                           IN  IF c > q + 1 THEN c ELSE 0

\* a replacement that keeps the text it found after the new one
RECURSIVE re_sub_keeps_old(_, _, _, _)
re_sub_keeps_old(content, i, repl, spaced) ==
    IF i > Len(content) THEN <<>>
    ELSE LET e == match_end(content, i, spaced)
         IN  IF e > 0
             THEN repl \o SubSeq(content, i, e) \o re_sub_keeps_old(content, e + 1, repl, spaced)
             ELSE <<content[i]>> \o re_sub_keeps_old(content, i + 1, repl, spaced)

\* re.sub(pattern, repl, content) from position i on: every match, found from
\* left to right without overlap, is replaced by repl
RECURSIVE re_sub(_, _, _, _)
re_sub(content, i, repl, spaced) ==
    IF i > Len(content) THEN <<>>
    ELSE LET e == match_end(content, i, spaced)
         IN  IF e > 0
             THEN repl \o re_sub(content, e + 1, repl, spaced)
             ELSE <<content[i]>> \o re_sub(content, i + 1, repl, spaced)

\* update_version_in_files on the two files; a file is [exists, content]. An
\* open() that fails ends the function with False, what was written stays
update_version_in_files(new_version, init_py, setup_py) ==
    IF ~init_py.exists
    THEN [ok |-> FALSE, init_py |-> init_py, setup_py |-> setup_py]
    ELSE LET new_init ==
                [exists |-> TRUE,
                 content |-> re_sub(init_py.content, 1,
                                    <<"K", " ", "=", " ", Quote>> \o new_version \o <<Quote>>,
                                    TRUE)]
         IN  IF ~setup_py.exists
             THEN [ok |-> FALSE, init_py |-> new_init, setup_py |-> setup_py]
             ELSE [ok |-> TRUE, init_py |-> new_init,
                   setup_py |->
                     [exists |-> TRUE,
                      content |-> re_sub(setup_py.content, 1,
                                         <<"K", "=", Quote>> \o new_version \o <<Quote>>,
                                         FALSE)]]

FileChars == {"K", "=", " ", Quote}

\* devkit/__init__.py: any text, or no file
InitFiles ==
    [exists : {TRUE}, content : SeqsUpTo(FileChars, MaxFileLen)]
    \cup {[exists |-> FALSE, content |-> <<>>]}

\* setup.py: one declaration, a declaration the pattern does not take
\* (white space), two declarations, or no file
SetupFiles ==
    { [exists |-> TRUE, content |-> <<"K", "=", Quote, "=", Quote, " ">>],
      [exists |-> TRUE, content |-> <<"K", " ", "=", Quote, "K", Quote>>],
      [exists |-> TRUE, content |-> <<"K", "=", Quote, "K", "=", Quote, "K", "=", Quote, " ", Quote>>],
      [exists |-> FALSE, content |-> <<>>] }

\* the versions the bump and set commands hand over: digits and dots
NewVersions == { <<"1", ".", "2", ".", "3">>, <<"1", "0">> }

\* characters of the version strings tried: digits (9 carries into a longer
\* number, 0 can lead), the dot and the newline
VersionChars == {"0", "1", "9", ".", "\n"}

VersionStrings == SeqsUpTo(VersionChars, MaxVersionLen)

\* --------------------------------------------------------------- git_utils
\* config.py: 'max_length' of DEFAULT_CONFIG
max_length == 100

Feat == <<"f", "e", "a", "t">>
Fix == <<"f", "i", "x">>
Docs == <<"d", "o", "c", "s">>
Style == <<"s", "t", "y", "l", "e">>
Refactor == <<"r", "e", "f", "a", "c", "t", "o", "r">>
Test == <<"t", "e", "s", "t">>
Chore == <<"c", "h", "o", "r", "e">>
Build == <<"b", "u", "i", "l", "d">>
Ci == <<"c", "i">>
Perf == <<"p", "e", "r", "f">>

\* the part of DEFAULT_CONFIG that the commit validator and the hook manager
\* read
DEFAULT_CONFIG ==
    [commit |-> [formats |-> {"conventional", "semantic"},
                 rules |-> [max_length |-> max_length,
                            allowed_types |-> {Feat, Fix, Docs, Style, Refactor, Test, Chore}]],
     hooks |-> [h \in {"enabled", "pre-commit", "pre-push", "pre-rebase"} |-> TRUE]]

WhiteSpace == {" ", "\n", "\t"}

\* str.strip()
RECURSIVE strip(_)
strip(q) ==
    IF q = <<>> THEN q
    ELSE IF q[1] \in WhiteSpace THEN strip(SubSeq(q, 2, Len(q)))
    ELSE IF q[Len(q)] \in WhiteSpace THEN strip(SubSeq(q, 1, Len(q) - 1))
    ELSE q

\* the position of the first ch at or after i, 0 when there is none
RECURSIVE find(_, _, _)
find(q, ch, i) ==
    IF i > Len(q) THEN 0
    ELSE IF q[i] = ch THEN i
    ELSE find(q, ch, i + 1)

starts_with(q, w) == Len(q) >= Len(w) /\ SubSeq(q, 1, Len(w)) = w

\* .+$ on the rest of the message: one character or more, none a newline
\* except one that ends the string
rest_matches(rest) ==
    /\ rest # <<>>
    /\ rest[1] # "\n"
    /\ \A j \in 1..Len(rest) - 1 : rest[j] # "\n"

\* re.match(r'^(t1|t2|...)\(([^)]+)\): .+$', message)
match_format(message, types) ==
    \E t \in types :
        /\ starts_with(message, t)
        /\ Len(message) > Len(t)
        /\ message[Len(t) + 1] = "("
        /\ LET c == find(message, ")", Len(t) + 2)
           IN  /\ c > Len(t) + 2
               /\ Len(message) >= c + 2
               /\ message[c + 1] = ":"
               /\ message[c + 2] = " "
               /\ rest_matches(SubSeq(message, c + 3, Len(message)))

validate_conventional(message) ==
    match_format(message, {Feat, Fix, Docs, Style, Refactor, Test, Chore})

validate_semantic(message) ==
    match_format(message, {Build, Ci, Docs, Feat, Fix, Perf, Refactor, Style, Test, Chore})

\* CommitValidator.validate_message
validator_validate_message(config, message) ==
    IF message = <<>> THEN FALSE
    ELSE IF Len(message) > config.commit.rules.max_length THEN FALSE
    ELSE IF strip(split(message, ":")[1]) \notin config.commit.rules.allowed_types THEN FALSE
    ELSE IF "conventional" \in config.commit.formats THEN validate_conventional(message)
    ELSE IF "semantic" \in config.commit.formats THEN validate_semantic(message)
    ELSE TRUE

\* how the interpreter treats the annotations of a def: it evaluates them when
\* the def runs (Python 3.7 to 3.13), or only when they are asked for
Annotations == {"eager", "deferred"}

\* CommitManager().validate_message(message) with no git-utils.yml:
\* commit_validator.py and logger.py name Optional in an annotation without
\* importing it, so with eager annotations importing git_utils.commit raises
\* NameError
validate_message(annotations, message) ==
    IF annotations = "eager" THEN [raised |-> TRUE, value |-> FALSE]
    ELSE [raised |-> FALSE, value |-> validator_validate_message(DEFAULT_CONFIG, message)]

\* ConfigManager.is_hook_enabled
is_hook_enabled(config, hook_name) ==
    IF hook_name \in DOMAIN config.hooks THEN config.hooks[hook_name] ELSE FALSE

\* what Repo.git_dir is in the installed GitPython: a str, or a path object
\* that has the / operator
GitDirKinds == {"str", "path"}

\* importing git_utils.hooks and HookManager(repo_path): logger.py names
\* Optional without importing it, and __init__ computes git_dir / 'hooks'
HookManager_init(annotations, git_dir) ==
    IF annotations = "eager" THEN "NameError"
    ELSE IF git_dir = "str" THEN "TypeError"
    ELSE "ok"

NoFile == [exists |-> FALSE, content |-> "", executable |-> FALSE]

\* HookManager(repo_path).install_hook(hook_name, hook_content); file is the
\* hook file of that name before the call
install_hook(annotations, git_dir, config, hook_name, hook_content, file) ==
    LET made == HookManager_init(annotations, git_dir)
    IN  IF made # "ok" THEN [raised |-> TRUE, error |-> made, file |-> file]
        ELSE IF ~is_hook_enabled(config, hook_name)
        THEN [raised |-> TRUE, error |-> "ValueError", file |-> file]
        ELSE [raised |-> FALSE, error |-> "",
              file |-> [exists |-> TRUE, content |-> hook_content, executable |-> TRUE]]

\* HookManager(repo_path).remove_hook(hook_name)
remove_hook(annotations, git_dir, hook_name, file) ==
    LET made == HookManager_init(annotations, git_dir)
    IN  IF made # "ok" THEN [raised |-> TRUE, error |-> made, file |-> file]
        ELSE [raised |-> FALSE, error |-> "", file |-> NoFile]

\* the configurations a git-utils.yml can give: the default, one hook switched
\* off
HookConfigs ==
    { DEFAULT_CONFIG,
      [DEFAULT_CONFIG EXCEPT !.hooks = [@ EXCEPT !["pre-commit"] = FALSE]] }

\* dict.update
dict_update(d, n) == [k \in DOMAIN d \cup DOMAIN n |-> IF k \in DOMAIN n THEN n[k] ELSE d[k]]

\* the dictionary a ConfigManager gets from _load_config: its own new one when
\* its file was read, the class-level DEFAULT_CONFIG itself otherwise
load_config(own, loaded) == IF loaded THEN own ELSE "DEFAULT_CONFIG"

\* two ConfigManagers a and b are constructed, then a.update_config(new_config)
\* is called; the dictionaries are objects of a heap and each manager holds a
\* reference. The result is what the references lead to afterwards.
update_config(a_loaded, a_config, b_loaded, b_config, new_config) ==
    LET a_ref == load_config("a", a_loaded)
        b_ref == load_config("b", b_loaded)
        heap == [o \in {"DEFAULT_CONFIG", "a", "b"} |->
                    IF o = "a" THEN a_config ELSE IF o = "b" THEN b_config ELSE DEFAULT_CONFIG]
        updated == [heap EXCEPT ![a_ref] = dict_update(@, new_config)]
    IN  [a |-> updated[a_ref], b_before |-> heap[b_ref], b |-> updated[b_ref],
         default |-> updated["DEFAULT_CONFIG"]]

\* what update_config is given: a section replaced, or nothing
NewConfigs ==
    { [hooks |-> [h \in {"enabled", "pre-commit", "pre-push", "pre-rebase"} |-> FALSE]],
      [commit |-> [formats |-> {"semantic"}, rules |-> DEFAULT_CONFIG.commit.rules]],
      <<>> }

\* hook names: two of the configuration, one it does not know
HookNames == {"pre-commit", "pre-push", "post-merge"}

\* the hook file before the call: none, or one left by someone else
HookFiles == {NoFile, [exists |-> TRUE, content |-> "old", executable |-> FALSE]}

\* the messages tried: type part, scope part, separator, description
TypeParts == {<<>>, Feat, Fix, Docs, <<" ">> \o Feat, <<"w", "i", "p">>, Perf}

ScopeParts == {<<>>, <<"(", ")">>, <<"(", "x", ")">>}

Separators == {<<>>, <<":">>, <<":", " ">>}

LongDescription == [i \in 1..max_length |-> "x"]

Descriptions == {<<>>, <<"x">>, <<"a", ":", "b">>, LongDescription}

Messages ==
    { t \o p \o c \o d : t \in TypeParts, p \in ScopeParts, c \in Separators,
                           d \in Descriptions }

\* ----------------------------------------------------------------- state
VARIABLES
    pc,                      \* position in `secure` / secure_pipeline
    registry,                \* --registry, <<>> when not given
    push,                    \* --push
    policy_files,            \* --policy, in the order given
    k8s_manifest,            \* --k8s-manifest was given
    signing_key,             \* --signing-key was given
    results,                 \* the result mapping of secure_pipeline
    policy_results,          \* local of the policy stage
    overall_policy_success,  \* local of the policy stage
    target_tags,             \* local of the tag stage
    exit_code,               \* process exit code, -1 while running
    active,                  \* stages whose stage function has not returned yet
    executed,                \* stages whose stage function was called, in call order
    cmds,                    \* external commands issued, in order
    env,                     \* outcomes the outside world gave to this run
    run,                     \* 1: first invocation, 2: a second one
    first,                   \* what the first invocation saw and how it exited
    call,                    \* a stage function called on its own: its name and arguments
    rets                     \* what the calls of that function returned, in order

inputs == <<registry, push, policy_files, k8s_manifest, signing_key>>
locals == <<policy_results, overall_policy_success, target_tags>>
pair == <<run, first>>
unit == <<call, rets>>
vars == <<pc, inputs, results, locals, exit_code, active, executed, cmds, env, pair, unit>>

Empty == [x \in {} |-> 0]

\* stages whose outcome a second invocation is free to see differently
FreeStages == {"sbom", "sign", "push"}

\* the outcomes a stage may draw: a second invocation sees again what the
\* first one saw, except at the free stages
Pick(stage, All) ==
    IF run = 2 /\ stage \notin FreeStages /\ stage \in DOMAIN first.env
    THEN {first.env[stage]}
    ELSE All

\* the outcomes the pipeline's runs draw for each stage: one for every branch
\* the pipeline takes on the stage function's result
PipelineScanOutcomes == {"clean", "critical", "nonzero_exit", "trivy_missing", "bad_json"}
PipelineSbomOutcomes == {"syft_ok", "no_tool", "makedirs_failed"}
PipelinePolicyOutcomes == {"pass", "rule_failed", "bad_shape"}
PipelineVersions == { <<"1", ".", "2", ".", "3">>, <<"d", "e", "v">> }
PipelineSignOutcomes ==
    {[ci |-> TRUE, o |-> o] : o \in SignOutcomes} \cup {[ci |-> FALSE, o |-> "signed"]}

PickPolicy(i) ==
    IF run = 2 /\ "policy" \in DOMAIN first.env /\ i <= Len(first.env["policy"])
    THEN {first.env["policy"][i]}
    ELSE PipelinePolicyOutcomes

Record(stage, o) == Put(env, stage, o)

BuildArgs == { <<>>, <<"k", "=", "v">>, <<"k", "v">> }

\* cli.py: key, value = arg_pair.split("=", 1) raises ValueError without '='
build_args_malformed(build_args) ==
    /\ build_args # <<>>
    /\ \E i \in 1..Len(split(build_args, ",")) :
           Len(split(split(build_args, ",")[i], "=")) < 2

\* a second invocation is given build args that parse as the first one's did
PickBuildArgs ==
    {ba \in BuildArgs :
        run = 2 /\ "build_args_malformed" \in DOMAIN first.env
            => build_args_malformed(ba) = first.env["build_args_malformed"]}

\* which docker tag / docker push commands succeed: all, none, all but the first
OkSets(n) == {1..n, {}, 2..n}

DockerOutcomes(n) ==
    {[docker |-> FALSE, ok |-> {}]} \cup {[docker |-> TRUE, ok |-> s] : s \in OkSets(n)}

Init ==
    /\ pc = "cli"
    /\ registry \in {<<>>, RegistryName}
    /\ push \in BOOLEAN
    /\ policy_files \in PolicyFileLists
    /\ k8s_manifest \in BOOLEAN
    /\ signing_key \in BOOLEAN
    /\ results = Empty
    /\ policy_results = <<>>
    /\ overall_policy_success = TRUE
    /\ target_tags = <<>>
    /\ exit_code = -1
    /\ active = {}
    /\ executed = <<>>
    /\ cmds = <<>>
    /\ env = Empty
    /\ run = 1
    /\ first = [env |-> Empty, exit_code |-> -1]
    /\ call = [fn |-> "secure"]
    /\ rets = <<>>

\* ------------------------------------------------------ cli.py: secure
\* a result mapping that starts every stage as succeeded
InitialResults_reports_success ==
    [k \in {"build", "scan", "sbom", "policy", "sign", "push"} |->
        [success |-> TRUE, output |-> "None"]]

\* the result mapping as secure_pipeline creates it
InitialResults ==
    [k \in {"build", "scan", "sbom", "policy", "sign", "push"} |->
        [success |-> FALSE, output |-> "None"]]

\* option parsing up to the call of secure_pipeline
SecureStart ==
    /\ pc = "cli"
    /\ \E ba \in PickBuildArgs :
        /\ env' = Record("build_args_malformed", build_args_malformed(ba))
        /\ IF build_args_malformed(ba)
           THEN /\ pc' = "exited"
                /\ exit_code' = 1
                /\ UNCHANGED results
           ELSE /\ pc' = "build"
                /\ results' = InitialResults
                /\ UNCHANGED exit_code
    /\ UNCHANGED <<inputs, locals, active, executed, cmds, pair, unit>>

\* ------------------------------------------- docker.py: secure_pipeline
Call(stage) ==
    /\ active' = active \cup {stage}
    /\ executed' = Append(executed, stage)

Return(stage, r) ==
    /\ active' = active \ {stage}
    /\ cmds' = cmds \o r.cmds

\* 1. Build
BuildStart ==
    /\ pc = "build"
    /\ pc' = "build_wait"
    /\ Call("build")
    /\ UNCHANGED <<inputs, results, locals, exit_code, cmds, env, pair, unit>>

BuildFinish ==
    /\ pc = "build_wait"
    /\ \E o \in Pick("build", BuildOutcomes) :
        LET r == build_docker_image(o)
        IN  /\ env' = Record("build", o)
            /\ Return("build", r)
            /\ IF r.raised
               THEN /\ results' = Put(results, "build", [success |-> FALSE, output |-> r.output])
                    /\ pc' = "return"
               ELSE /\ results' = Put(results, "build", [success |-> TRUE, output |-> r.output])
                    /\ pc' = "test"
    /\ UNCHANGED <<inputs, locals, exit_code, executed, pair, unit>>

\* 2. Test
TestStart ==
    /\ pc = "test"
    /\ pc' = "test_wait"
    /\ Call("test")
    /\ UNCHANGED <<inputs, results, locals, exit_code, cmds, env, pair, unit>>

\* a test failure that is recorded without returning
TestFinish_falls_through ==
    /\ pc = "test_wait"
    /\ \E o \in Pick("test", TestOutcomes) :
        LET r == test_docker_image(o)
        IN  /\ env' = Record("test", o)
            /\ Return("test", r)
            /\ results' = Put(results, "test",
                              [success |-> ~r.raised /\ r.success, output |-> r.output])
            /\ pc' = "scan"
    /\ UNCHANGED <<inputs, locals, exit_code, executed, pair, unit>>

TestFinish ==
    /\ pc = "test_wait"
    /\ \E o \in Pick("test", TestOutcomes) :
        LET r == test_docker_image(o)
        IN  /\ env' = Record("test", o)
            /\ Return("test", r)
            /\ IF r.raised \/ ~r.success
               THEN /\ results' = Put(results, "test", [success |-> FALSE, output |-> r.output])
                    /\ pc' = "return"
               ELSE /\ results' = Put(results, "test", [success |-> TRUE, output |-> r.output])
                    /\ pc' = "scan"
    /\ UNCHANGED <<inputs, locals, exit_code, executed, pair, unit>>

\* 3. Scan: the except branch records the failure and falls through
\* the scanner launched without waiting for it to exit
ScanStart_does_not_wait ==
    /\ pc = "scan"
    /\ pc' = "sbom"
    /\ Call("scan")
    /\ UNCHANGED <<inputs, results, locals, exit_code, cmds, env, pair, unit>>

ScanStart ==
    /\ pc = "scan"
    /\ pc' = "scan_wait"
    /\ Call("scan")
    /\ UNCHANGED <<inputs, results, locals, exit_code, cmds, env, pair, unit>>

ScanFinish ==
    /\ pc = "scan_wait"
    /\ \E o \in Pick("scan", PipelineScanOutcomes) :
        LET r == scan_docker_image(o)
        IN  /\ env' = Record("scan", o)
            /\ Return("scan", r)
            /\ results' = Put(results, "scan", [success |-> r.success, output |-> r.output])
            /\ IF ~r.raised /\ ~r.success
               THEN pc' = "return"
               ELSE pc' = "sbom"
    /\ UNCHANGED <<inputs, locals, exit_code, executed, pair, unit>>

\* 4. SBOM
SbomStart ==
    /\ pc = "sbom"
    /\ pc' = "sbom_wait"
    /\ Call("sbom")
    /\ UNCHANGED <<inputs, results, locals, exit_code, cmds, env, pair, unit>>

\* an SBOM failure treated as fatal
SbomFinish_halts_on_failure ==
    /\ pc = "sbom_wait"
    /\ \E o \in Pick("sbom", PipelineSbomOutcomes) :
        LET r == IF o = "makedirs_failed"
                 THEN [success |-> FALSE, output |-> "OSError", cmds |-> <<>>]
                 ELSE generate_sbom(o)
        IN  /\ env' = Record("sbom", o)
            /\ Return("sbom", r)
            /\ results' = Put(results, "sbom", [success |-> r.success, output |-> r.output])
            /\ pc' = IF r.success THEN "policy" ELSE "return"
    /\ UNCHANGED <<inputs, locals, exit_code, executed, pair, unit>>

SbomFinish ==
    /\ pc = "sbom_wait"
    /\ \E o \in Pick("sbom", PipelineSbomOutcomes) :
        LET r == IF o = "makedirs_failed"
                 THEN [success |-> FALSE, output |-> "OSError", cmds |-> <<>>]
                 ELSE generate_sbom(o)
        IN  /\ env' = Record("sbom", o)
            /\ Return("sbom", r)
            /\ results' = Put(results, "sbom", [success |-> r.success, output |-> r.output])
            /\ pc' = "policy"
    /\ UNCHANGED <<inputs, locals, exit_code, executed, pair, unit>>

\* 5. Policy check, entered only with policy files and a manifest
PolicyStart ==
    /\ pc = "policy"
    /\ IF policy_files # <<>> /\ k8s_manifest
       THEN /\ pc' = "policy_wait"
            /\ policy_results' = <<>>
            /\ overall_policy_success' = TRUE
            /\ Call("policy")
       ELSE /\ pc' = "tag"
            /\ UNCHANGED <<policy_results, overall_policy_success, active, executed>>
    /\ UNCHANGED <<inputs, results, target_tags, exit_code, cmds, env, pair, unit>>

\* the loop left at the first policy file that fails
PolicyCheck_stops_at_first_failure ==
    /\ pc = "policy_wait"
    /\ Len(policy_results) < Len(policy_files)
    /\ LET i == Len(policy_results) + 1
       IN  \E o \in PickPolicy(i) :
            LET r == check_kyverno_policy(o)
                seen == IF "policy" \in DOMAIN env THEN env["policy"] ELSE <<>>
                entry == [policy |-> policy_files[i], success |-> r.success,
                          output |-> r.output]
            IN  /\ env' = Record("policy", Append(seen, o))
                /\ cmds' = cmds \o r.cmds
                /\ IF r.raised
                   THEN /\ results' = Put(results, "policy",
                                          [success |-> FALSE, output |-> r.output])
                        /\ pc' = "tag"
                        /\ active' = active \ {"policy"}
                        /\ UNCHANGED <<policy_results, overall_policy_success>>
                   ELSE IF ~r.success
                   THEN /\ results' = Put(results, "policy",
                                          [success |-> FALSE,
                                           output |-> Append(policy_results, entry)])
                        /\ pc' = "tag"
                        /\ active' = active \ {"policy"}
                        /\ policy_results' = Append(policy_results, entry)
                        /\ overall_policy_success' = FALSE
                   ELSE /\ policy_results' = Append(policy_results, entry)
                        /\ overall_policy_success' = (overall_policy_success /\ r.success)
                        /\ UNCHANGED <<results, pc, active>>
    /\ UNCHANGED <<inputs, target_tags, exit_code, executed, pair, unit>>

\* one turn of the loop over policy_files
PolicyCheck ==
    /\ pc = "policy_wait"
    /\ Len(policy_results) < Len(policy_files)
    /\ LET i == Len(policy_results) + 1
       IN  \E o \in PickPolicy(i) :
            LET r == check_kyverno_policy(o)
                seen == IF "policy" \in DOMAIN env THEN env["policy"] ELSE <<>>
            IN  /\ env' = Record("policy", Append(seen, o))
                /\ cmds' = cmds \o r.cmds
                /\ IF r.raised
                   THEN /\ results' = Put(results, "policy",
                                          [success |-> FALSE, output |-> r.output])
                        /\ pc' = "tag"
                        /\ active' = active \ {"policy"}
                        /\ UNCHANGED <<policy_results, overall_policy_success>>
                   ELSE /\ policy_results' =
                              Append(policy_results,
                                     [policy |-> policy_files[i],
                                      success |-> r.success,
                                      output |-> r.output])
                        /\ overall_policy_success' = (overall_policy_success /\ r.success)
                        /\ UNCHANGED <<results, pc, active>>
    /\ UNCHANGED <<inputs, target_tags, exit_code, executed, pair, unit>>

\* a failed policy check treated as fatal
PolicyFinish_halts_on_failure ==
    /\ pc = "policy_wait"
    /\ Len(policy_results) = Len(policy_files)
    /\ results' = Put(results, "policy",
                      [success |-> overall_policy_success, output |-> policy_results])
    /\ pc' = IF overall_policy_success THEN "tag" ELSE "return"
    /\ active' = active \ {"policy"}
    /\ UNCHANGED <<inputs, locals, exit_code, executed, cmds, env, pair, unit>>

\* after the loop
PolicyFinish ==
    /\ pc = "policy_wait"
    /\ Len(policy_results) = Len(policy_files)
    /\ results' = Put(results, "policy",
                      [success |-> overall_policy_success, output |-> policy_results])
    /\ pc' = "tag"
    /\ active' = active \ {"policy"}
    /\ UNCHANGED <<inputs, locals, exit_code, executed, cmds, env, pair, unit>>

\* 6. Tag, entered only with a registry; the tags are computed outside the try
TagStart ==
    /\ pc = "tag"
    /\ IF registry = <<>>
       THEN /\ pc' = "return"
            /\ UNCHANGED <<target_tags, active, executed, env>>
       ELSE \E version \in Pick("version", PipelineVersions) :
            LET g == generate_docker_tags(registry, version, TRUE, FALSE, <<>>, FALSE, <<>>)
            IN  /\ env' = Record("version", version)
                /\ IF g.raised
                   THEN /\ pc' = "raised"
                        /\ UNCHANGED <<target_tags, active, executed>>
                   ELSE /\ pc' = "tag_wait"
                        /\ target_tags' = g.tags
                        /\ Call("tag")
    /\ UNCHANGED <<inputs, results, policy_results, overall_policy_success,
                   exit_code, cmds, pair, unit>>

TagFinish ==
    /\ pc = "tag_wait"
    /\ \E o \in Pick("tag", DockerOutcomes(Len(target_tags))) :
        LET r == tag_docker_image(o.docker, target_tags, o.ok)
        IN  /\ env' = Record("tag", o)
            /\ Return("tag", r)
            /\ IF r.raised
               THEN /\ results' = Put(results, "tag",
                                      [success |-> FALSE,
                                       output |-> "Docker is not installed or not in PATH"])
                    /\ pc' = "return"
               ELSE /\ results' = Put(results, "tag",
                                      [success |-> Len(r.tagged) > 0, output |-> r.tagged])
                    /\ pc' = "sign"
    /\ UNCHANGED <<inputs, locals, exit_code, executed, pair, unit>>

\* 7. Sign the full version tag
SignStart ==
    /\ pc = "sign"
    /\ pc' = "sign_wait"
    /\ Call("sign")
    /\ UNCHANGED <<inputs, results, locals, exit_code, cmds, env, pair, unit>>

\* a signing failure treated as fatal
SignFinish_halts_on_failure ==
    /\ pc = "sign_wait"
    /\ \E e \in PipelineSignOutcomes :
        LET r == sign_image(signing_key, e.ci, e.o)
        IN  /\ env' = Record("sign", e)
            /\ Return("sign", r)
            /\ results' = Put(results, "sign", [success |-> r.success, output |-> r.output])
            /\ pc' = IF r.success THEN "push" ELSE "return"
    /\ UNCHANGED <<inputs, locals, exit_code, executed, pair, unit>>

SignFinish ==
    /\ pc = "sign_wait"
    /\ \E e \in PipelineSignOutcomes :
        LET r == sign_image(signing_key, e.ci, e.o)
        IN  /\ env' = Record("sign", e)
            /\ Return("sign", r)
            /\ results' = Put(results, "sign", [success |-> r.success, output |-> r.output])
            /\ pc' = "push"
    /\ UNCHANGED <<inputs, locals, exit_code, executed, pair, unit>>

\* 8. Push, only if requested
\* a push that does not look at the push flag
PushStart_ignores_flag ==
    /\ pc = "push"
    /\ pc' = "push_wait"
    /\ Call("push")
    /\ UNCHANGED <<inputs, results, locals, exit_code, cmds, env, pair, unit>>

PushStart ==
    /\ pc = "push"
    /\ IF push
       THEN /\ pc' = "push_wait"
            /\ Call("push")
       ELSE /\ pc' = "return"
            /\ UNCHANGED <<active, executed>>
    /\ UNCHANGED <<inputs, results, locals, exit_code, cmds, env, pair, unit>>

PushFinish ==
    /\ pc = "push_wait"
    /\ \E o \in DockerOutcomes(Len(target_tags)) :
        LET r == push_docker_image(o.docker, target_tags, o.ok)
        IN  /\ env' = Record("push", o)
            /\ Return("push", r)
            /\ IF r.raised
               THEN results' = Put(results, "push",
                                   [success |-> FALSE,
                                    output |-> "Docker is not installed or not in PATH"])
               ELSE results' = Put(results, "push",
                                   [success |-> Len(r.pushed) > 0, output |-> r.pushed])
            /\ pc' = "return"
    /\ UNCHANGED <<inputs, locals, exit_code, executed, pair, unit>>

\* ------------------------------------------------ cli.py: the exit code
\* an exit code that also reports a failed signing
SecureExit_checks_sign ==
    /\ pc \in {"return", "raised"}
    /\ pc' = "exited"
    /\ exit_code' =
         IF pc = "raised" THEN 1
         ELSE IF ~results["build"].success THEN 1
         ELSE IF "scan" \in DOMAIN results /\ ~results["scan"].success THEN 1
         ELSE IF "policy" \in DOMAIN results /\ ~results["policy"].success THEN 1
         ELSE IF "sign" \in Range(executed) /\ ~results["sign"].success THEN 1
         ELSE 0
    /\ UNCHANGED <<inputs, results, locals, active, executed, cmds, env, pair, unit>>

\* an exception out of secure_pipeline is caught and exits 1
SecureExit ==
    /\ pc \in {"return", "raised"}
    /\ pc' = "exited"
    /\ exit_code' =
         IF pc = "raised" THEN 1
         ELSE IF ~results["build"].success THEN 1
         ELSE IF "scan" \in DOMAIN results /\ ~results["scan"].success THEN 1
         ELSE IF "policy" \in DOMAIN results /\ ~results["policy"].success THEN 1
         ELSE 0
    /\ UNCHANGED <<inputs, results, locals, active, executed, cmds, env, pair, unit>>

\* the command is invoked a second time with the same options
Rerun ==
    /\ pc = "exited"
    /\ run = 1
    /\ run' = 2
    /\ first' = [env |-> [k \in DOMAIN env \ FreeStages |-> env[k]],
                 exit_code |-> exit_code]
    /\ pc' = "cli"
    /\ results' = Empty
    /\ policy_results' = <<>>
    /\ overall_policy_success' = TRUE
    /\ target_tags' = <<>>
    /\ exit_code' = -1
    /\ active' = {}
    /\ executed' = <<>>
    /\ cmds' = <<>>
    /\ env' = Empty
    /\ UNCHANGED <<inputs, unit>>

Next ==
    \/ SecureStart
    \/ BuildStart \/ BuildFinish
    \/ TestStart \/ TestFinish
    \/ ScanStart \/ ScanFinish
    \/ SbomStart \/ SbomFinish
    \/ PolicyStart \/ PolicyCheck \/ PolicyFinish
    \/ TagStart \/ TagFinish
    \/ SignStart \/ SignFinish
    \/ PushStart \/ PushFinish
    \/ SecureExit

Spec == Init /\ [][Next]_vars

\* two invocations with the same options
NextPair == Next \/ Rerun

SpecPair == Init /\ [][NextPair]_vars

\* ------------------------------------------------------------ properties
\* ------------------------------------------- the functions on their own
\* no pipeline is running
Idle ==
    /\ pc = "unit"
    /\ registry = <<>>
    /\ push = FALSE
    /\ policy_files = <<>>
    /\ k8s_manifest = FALSE
    /\ signing_key = FALSE
    /\ results = Empty
    /\ policy_results = <<>>
    /\ overall_policy_success = TRUE
    /\ target_tags = <<>>
    /\ exit_code = -1
    /\ active = {}
    /\ executed = <<>>
    /\ cmds = <<>>
    /\ env = Empty
    /\ run = 1
    /\ first = [env |-> Empty, exit_code |-> -1]

pipeline == <<pc, inputs, results, locals, exit_code, active, executed, cmds, env, pair>>

BumpCalls ==
    [fn : {"bump_version"}, current_version : VersionStrings, bump_type : VersionBump]

\* image names with and without a repository path
BaseNames == { <<"a">>, <<"r", "/", "a">> }

\* the versions M.m.p with numbers up to MaxComponent; the patch number, which
\* the function never takes out of the version, is the smallest or the largest
TagVersions ==
    { str(M) \o Dot \o str(m) \o Dot \o str(p) :
        M \in 0..MaxComponent, m \in 0..MaxComponent, p \in {0, MaxComponent} }

\* what time.strftime("%Y%m%d") can give on two days
Dates ==
    { <<"2", "0", "2", "6", "0", "1", "0", "1">>,
      <<"2", "0", "2", "6", "0", "1", "0", "2">> }

\* git rev-parse --short HEAD: a hash, another hash after a commit, or a
\* failure (git not installed, or no commit yet)
GitOutcomes ==
    { [ok |-> TRUE, hash |-> <<"a", "1", "b", "2", "c", "3", "d">>],
      [ok |-> TRUE, hash |-> <<"e", "4", "f", "5", "a", "6", "b">>],
      [ok |-> FALSE, hash |-> <<>>] }

TagCalls ==
    [fn : {"generate_docker_tags"}, base_name : BaseNames, version : TagVersions,
     include_latest : BOOLEAN, chainguard_tags : BOOLEAN]

\* the "Severity" of an entry of a report: a counted level, a level that is
\* not counted, or "" for an entry without the key
Severities == SeverityLevels \cup {"NEGLIGIBLE", ""}

\* the reports trivy can print: result groups, each a list of vulnerabilities
ScanReports == SeqsUpTo(SeqsUpTo(Severities, MaxVulns), MaxGroups)

\* what trivy prints is a report, or text that json.loads does not take
ScanCalls ==
    [fn : {"scan_docker_image"}, output_format : {"json"}, decodable : {TRUE},
     scan_data : ScanReports]
    \cup [fn : {"scan_docker_image"}, output_format : {"json"}, decodable : {FALSE},
          scan_data : {<<>>}]

UpdateCalls ==
    [fn : {"update_version_in_files"}, new_version : NewVersions,
     init_py : InitFiles, setup_py : SetupFiles]

ValidateCalls == [fn : {"validate_message"}, message : Messages]

HookCalls ==
    [fn : {"install_hook"}, config : HookConfigs, hook_name : HookNames,
     hook_content : {"#!/bin/sh", ""}, file : HookFiles]

ConfigCalls ==
    [fn : {"update_config"}, a_loaded : BOOLEAN, a_config : HookConfigs,
     b_loaded : BOOLEAN, b_config : HookConfigs, new_config : NewConfigs]

TestCalls == [fn : {"test_docker_image"}, image_name : {"image"}]

PolicyCalls == [fn : {"check_kyverno_policy"}, policy_file : PolicyNames]

BuildCalls == [fn : {"build_docker_image"}, dockerfile_path : {"Dockerfile"}]

SignCalls == [fn : {"sign_image", "verify_image_signature"}, has_key : BOOLEAN]

SbomCalls == [fn : {"generate_sbom"}, format : {"spdx-json"}]

UnitCalls == BumpCalls \cup TagCalls \cup ScanCalls \cup BuildCalls \cup SignCalls \cup SbomCalls
    \cup PolicyCalls \cup TestCalls \cup UpdateCalls \cup ValidateCalls
    \cup HookCalls \cup ConfigCalls

InitUnit ==
    /\ Idle
    /\ call \in UnitCalls
    /\ rets = <<>>

BumpVersion ==
    /\ call.fn = "bump_version"
    /\ rets = <<>>
    /\ rets' = <<bump_version(call.current_version, call.bump_type)>>
    /\ UNCHANGED <<pipeline, call>>

\* generate_docker_tags called once and then once more with the same
\* arguments; the day and the state of the repository are the world's
GenerateTags ==
    /\ call.fn = "generate_docker_tags"
    /\ Len(rets) < 2
    /\ \E date_str \in Dates, git \in GitOutcomes :
        LET r == generate_docker_tags(call.base_name, call.version, call.include_latest,
                                      call.chainguard_tags, date_str, git.ok, git.hash)
        IN  rets' = Append(rets, [raised |-> r.raised, tags |-> r.tags,
                                  date_str |-> date_str, git |-> git])
    /\ UNCHANGED <<pipeline, call>>

\* scan_docker_image in JSON mode, docker and trivy installed, trivy exits 0
ScanImage ==
    /\ call.fn = "scan_docker_image"
    /\ rets = <<>>
    /\ rets' = <<scan_stdout(call.decodable, call.scan_data)>>
    /\ UNCHANGED <<pipeline, call>>

\* build_docker_image; whether docker answers, whether the Dockerfile is there
\* and how docker build exits are the world's
BuildImage ==
    /\ call.fn = "build_docker_image"
    /\ rets = <<>>
    /\ \E docker_installed \in BOOLEAN, dockerfile_exists \in BOOLEAN, build_ok \in BOOLEAN :
        LET r == build_docker_image_checks(docker_installed, dockerfile_exists, build_ok)
        IN  rets' = <<[raised |-> r.raised, output |-> r.output, cmds |-> r.cmds,
                       docker_installed |-> docker_installed,
                       dockerfile_exists |-> dockerfile_exists, build_ok |-> build_ok]>>
    /\ UNCHANGED <<pipeline, call>>

\* sign_image; whether GITHUB_ACTIONS is set and what cosign does are the world's
SignImage ==
    /\ call.fn = "sign_image"
    /\ rets = <<>>
    /\ \E ci \in BOOLEAN, o \in SignOutcomes :
        LET r == sign_image(call.has_key, ci, o)
        IN  rets' = <<[raised |-> r.raised, success |-> r.success, output |-> r.output,
                       cmds |-> r.cmds, ci |-> ci, o |-> o]>>
    /\ UNCHANGED <<pipeline, call>>

VerifyImage ==
    /\ call.fn = "verify_image_signature"
    /\ rets = <<>>
    /\ \E ci \in BOOLEAN, o \in VerifyOutcomes :
        LET r == verify_image_signature(call.has_key, ci, o)
        IN  rets' = <<[raised |-> r.raised, success |-> r.success, output |-> r.output,
                       cmds |-> r.cmds, ci |-> ci, o |-> o]>>
    /\ UNCHANGED <<pipeline, call>>

\* generate_sbom; which tools are installed and how the generator exits are
\* the world's
GenerateSbom ==
    /\ call.fn = "generate_sbom"
    /\ rets = <<>>
    /\ \E syft_installed \in BOOLEAN, scout_installed \in BOOLEAN, run_ok \in BOOLEAN :
        LET r == generate_sbom_tools(syft_installed, scout_installed, run_ok)
        IN  rets' = <<[success |-> r.success, output |-> r.output, cmds |-> r.cmds,
                       syft_installed |-> syft_installed,
                       scout_installed |-> scout_installed, run_ok |-> run_ok]>>
    /\ UNCHANGED <<pipeline, call>>

\* check_kyverno_policy; what kyverno does and prints is the world's
CheckPolicy ==
    /\ call.fn = "check_kyverno_policy"
    /\ rets = <<>>
    /\ \E o \in PolicyOutcomes :
        LET r == check_kyverno_policy(o)
        IN  rets' = <<[raised |-> r.raised, success |-> r.success, output |-> r.output,
                       cmds |-> r.cmds, o |-> o]>>
    /\ UNCHANGED <<pipeline, call>>

\* test_docker_image invoked and then invoked again, by the same run or by
\* another one; the clock does not go back between the two
TestImage ==
    /\ call.fn = "test_docker_image"
    /\ Len(rets) < 2
    /\ \E ticks \in 0..MaxTicks, o \in TestOutcomes :
        /\ rets # <<>> => ticks >= rets[1].ticks
        /\ LET r == test_docker_image(o)
           IN  rets' = Append(rets, [raised |-> r.raised, success |-> r.success,
                                     container_name |-> container_name(ticks),
                                     ticks |-> ticks, o |-> o])
    /\ UNCHANGED <<pipeline, call>>

\* update_version_in_files called, and then called again with the same
\* version on the files the first call left
UpdateVersion ==
    /\ call.fn = "update_version_in_files"
    /\ Len(rets) < 2
    /\ rets' = Append(rets,
                      IF rets = <<>>
                      THEN update_version_in_files(call.new_version, call.init_py, call.setup_py)
                      ELSE update_version_in_files(call.new_version, rets[1].init_py,
                                                   rets[1].setup_py))
    /\ UNCHANGED <<pipeline, call>>

\* CommitManager.validate_message; the interpreter is the world's
ValidateMessage ==
    /\ call.fn = "validate_message"
    /\ rets = <<>>
    /\ \E annotations \in Annotations :
        LET r == validate_message(annotations, call.message)
        IN  rets' = <<[raised |-> r.raised, value |-> r.value, annotations |-> annotations]>>
    /\ UNCHANGED <<pipeline, call>>

\* install_hook; the interpreter and the installed GitPython are the world's
InstallHook ==
    /\ call.fn = "install_hook"
    /\ rets = <<>>
    /\ \E annotations \in Annotations, git_dir \in GitDirKinds :
        LET r == install_hook(annotations, git_dir, call.config, call.hook_name,
                              call.hook_content, call.file)
        IN  rets' = <<[op |-> "install_hook", raised |-> r.raised, error |-> r.error,
                       file |-> r.file, annotations |-> annotations, git_dir |-> git_dir]>>
    /\ UNCHANGED <<pipeline, call>>

\* remove_hook of the same name after an install that succeeded
RemoveHook ==
    /\ call.fn = "install_hook"
    /\ Len(rets) = 1
    /\ ~rets[1].raised
    /\ LET r == remove_hook(rets[1].annotations, rets[1].git_dir, call.hook_name, rets[1].file)
       IN  rets' = Append(rets, [op |-> "remove_hook", raised |-> r.raised, error |-> r.error,
                                 file |-> r.file, annotations |-> rets[1].annotations,
                                 git_dir |-> rets[1].git_dir])
    /\ UNCHANGED <<pipeline, call>>

UpdateConfig ==
    /\ call.fn = "update_config"
    /\ rets = <<>>
    /\ rets' = <<update_config(call.a_loaded, call.a_config, call.b_loaded, call.b_config,
                               call.new_config)>>
    /\ UNCHANGED <<pipeline, call>>

NextUnit ==
    \/ CheckPolicy
    \/ UpdateConfig
    \/ InstallHook
    \/ RemoveHook
    \/ ValidateMessage
    \/ UpdateVersion
    \/ TestImage
    \/ BumpVersion
    \/ GenerateTags
    \/ ScanImage
    \/ BuildImage
    \/ SignImage
    \/ VerifyImage
    \/ GenerateSbom

SpecUnit == InitUnit /\ [][NextUnit]_vars

\* ------------------------------------------------ cli.py: the push command
\* the largest exit status a launched command is taken to finish with
MaxReturnCode == 3

\* the argument of the command; "dev" is its default
TargetBranches == {"dev", "main", "master", "feature"}

\* what subprocess.run meets: the program is not on PATH, or a process that
\* ends with an exit status
RunOutcomes ==
    {[found |-> FALSE, returncode |-> -1]}
        \cup {[found |-> TRUE, returncode |-> c] : c \in 0..MaxReturnCode}

\* run_command with check=True: a non-zero exit status is CalledProcessError,
\* the only exception caught; FileNotFoundError leaves the function
run_command(o, capture_output) ==
    IF ~o.found
    THEN [raised |-> TRUE, success |-> FALSE, output |-> "None"]
    ELSE IF o.returncode # 0
    THEN [raised |-> FALSE, success |-> FALSE, output |-> "None"]
    ELSE [raised |-> FALSE, success |-> TRUE,
          output |-> IF capture_output THEN "stdout" ELSE "None"]

\* the Python formatting commands, in the order of the loop
commands == <<"black .", "isort .", "ruff check . --fix">>

PushCalls == [fn : {"push"}, target_branch : TargetBranches]

InitPush ==
    /\ pc = "push"
    /\ call \in PushCalls
    /\ rets = <<>>
    /\ registry = <<>>
    /\ push = FALSE
    /\ policy_files = <<>>
    /\ k8s_manifest = FALSE
    /\ signing_key = FALSE
    /\ results = Empty
    /\ policy_results = <<>>
    /\ overall_policy_success = TRUE
    /\ target_tags = <<>>
    /\ exit_code = -1
    /\ active = {}
    /\ executed = <<>>
    /\ cmds = <<>>
    /\ env = Empty
    /\ run = 1
    /\ first = [env |-> Empty, exit_code |-> -1]

\* the variables the push command does not touch
push_unused == <<inputs, results, locals, active, executed, env, pair, call>>

\* a step whose failure is not looked at
RunStep_ignores_failure(command, capture_output, next) ==
    \E o \in RunOutcomes :
        LET r == run_command(o, capture_output)
        IN  /\ cmds' = Append(cmds, command)
            /\ rets' = Append(rets, [command |-> command, returncode |-> o.returncode,
                                     raised |-> r.raised, success |-> r.success])
            /\ IF r.raised
               THEN pc' = "exited" /\ exit_code' = 1
               ELSE pc' = next /\ UNCHANGED exit_code

\* one pre-push step: the command is launched; a failure is sys.exit(1), an
\* exception that leaves run_command ends the interpreter with status 1 too
RunStep(command, capture_output, next) ==
    \E o \in RunOutcomes :
        LET r == run_command(o, capture_output)
        IN  /\ cmds' = Append(cmds, command)
            /\ rets' = Append(rets, [command |-> command, returncode |-> o.returncode,
                                     raised |-> r.raised, success |-> r.success])
            /\ IF r.raised \/ ~r.success
               THEN pc' = "exited" /\ exit_code' = 1
               ELSE pc' = next /\ UNCHANGED exit_code

\* branch protection
PushBranchProtection ==
    /\ pc = "push"
    /\ IF call.target_branch = "main"
       THEN pc' = "exited" /\ exit_code' = 1
       ELSE pc' = "format" /\ UNCHANGED exit_code
    /\ UNCHANGED <<cmds, rets, push_unused>>

PushFormat ==
    /\ pc = "format"
    /\ RunStep("npm run format:all", TRUE, commands[1])
    /\ UNCHANGED push_unused

PushPythonFormat ==
    /\ \E i \in DOMAIN commands :
        /\ pc = commands[i]
        /\ RunStep(commands[i], TRUE,
                   IF i < Len(commands) THEN commands[i + 1] ELSE "build")
    /\ UNCHANGED push_unused

PushVerifyBuild ==
    /\ pc = "build"
    /\ RunStep("npm run build", FALSE, "test")
    /\ UNCHANGED push_unused

PushRunTests ==
    /\ pc = "test"
    /\ RunStep("npm test", FALSE, "git push")
    /\ UNCHANGED push_unused

\* the push itself; the command ends with status 0 when it succeeded
PushChanges ==
    /\ pc = "git push"
    /\ \E o \in RunOutcomes :
        LET r == run_command(o, TRUE)
        IN  /\ cmds' = Append(cmds, "git push")
            /\ rets' = Append(rets, [command |-> "git push", returncode |-> o.returncode,
                                     raised |-> r.raised, success |-> r.success])
            /\ pc' = "exited"
            /\ exit_code' = IF r.raised \/ ~r.success THEN 1 ELSE 0
    /\ UNCHANGED push_unused

NextPush ==
    \/ PushBranchProtection
    \/ PushFormat
    \/ PushPythonFormat
    \/ PushVerifyBuild
    \/ PushRunTests
    \/ PushChanges

SpecPush == InitPush /\ [][NextPush]_vars

StageOrder == <<"build", "test", "scan", "sbom", "policy", "tag", "sign", "push">>

StageIndex(stage) == CHOOSE k \in 1..Len(StageOrder) : StageOrder[k] = stage

\* the stage function of `stage` was called and has returned
Finished(stage) == stage \in Range(executed) /\ stage \notin active

\* the stage ran and was recorded with success = false
Failed(stage) == Finished(stage) /\ stage \in DOMAIN results /\ ~results[stage].success

\* an exception left secure_pipeline: the tags could not be computed
PipelineRaised ==
    /\ "version" \in DOMAIN env
    /\ generate_docker_tags(registry, env["version"], TRUE, FALSE, <<>>, FALSE, <<>>).raised

\* C1: whenever the scan stage ends with success = false (a CRITICAL finding,
\* a nonzero exit of the scanner, or the scanner not installed), the pipeline
\* halts: no SBOM, policy, tag, sign or push operation is executed afterwards.
C1_ScanFailureHalts ==
    Failed("scan") =>
        Range(executed) \cap {"sbom", "policy", "tag", "sign", "push"} = {}

\* C2: when secure_pipeline returns after a fatal stage failed, the result
\* mapping holds no entry for any stage after the failing one (after a
\* CRITICAL finding: no sbom, policy, tag, sign or push key).
C2_NoEntriesAfterFatalFailure ==
    \A k \in 1..Len(StageOrder) :
        ( /\ pc = "return"
          /\ executed # <<>>
          /\ executed[Len(executed)] = StageOrder[k]
          /\ StageOrder[k] \in {"build", "test", "scan", "tag"}
          /\ ~results[StageOrder[k]].success )
        => \A j \in (k + 1)..Len(StageOrder) : StageOrder[j] \notin DOMAIN results

\* C3: `secure` exits 1 if the build, scan or policy stage failed and 0
\* otherwise; stated for the runs in which secure_pipeline returned and the
\* test stage, which the claim does not name, did not fail. A run with build,
\* test and scan passed and no policy check performed is such a run.
C3_ExitCodeFromFatalStages ==
    ( /\ pc = "exited"
      /\ results # Empty
      /\ ~PipelineRaised
      /\ ~Failed("test") )
    => (exit_code = IF Failed("build") \/ Failed("scan") \/ Failed("policy")
                    THEN 1 ELSE 0)

\* C4: if the build stage fails (build raises) or the test stage fails (the
\* test reports not-passed or raises), secure_pipeline returns at once with
\* that stage recorded as success = false and no later stage is invoked.
C4_BuildAndTestAreFatal ==
    /\ ("build" \in DOMAIN env /\ env["build"] # "built")
         => /\ ~results["build"].success
            /\ executed = <<"build">>
            /\ pc \in {"return", "exited"}
    /\ ("test" \in DOMAIN env /\ env["test"] # "passed")
         => /\ ~results["test"].success
            /\ executed = <<"build", "test">>
            /\ pc \in {"return", "exited"}

C4_Witness ==
    /\ pc = "return"
    /\ "test" \in DOMAIN env
    /\ env["test"] = "failed"
    /\ results["build"].success
    /\ ~results["test"].success

\* C5: if build, test and scan succeed and SBOM generation fails (no SBOM tool
\* installed, or it raises), sbom.success = false is recorded and the pipeline
\* does not halt: a run given a registry still calls and records the tag
\* stage and, unless tagging raised, the sign stage and the requested push.
C5_SbomFailureDoesNotHalt ==
    ( /\ "sbom" \in DOMAIN env
      /\ env["sbom"] # "syft_ok"
      /\ results["build"].success
      /\ results["test"].success
      /\ results["scan"].success )
    => /\ ~results["sbom"].success
       /\ (pc = "return" /\ registry # <<>>)
            => /\ "tag" \in Range(executed)
               /\ "tag" \in DOMAIN results
               /\ env["tag"].docker
                    => /\ "sign" \in Range(executed)
                       /\ push => "push" \in Range(executed)

C5_Witness ==
    /\ pc = "return"
    /\ "sbom" \in DOMAIN env
    /\ env["sbom"] = "no_tool"
    /\ results["scan"].success
    /\ ~results["sbom"].success
    /\ executed = <<"build", "test", "scan", "sbom", "tag", "sign", "push">>
    /\ results["tag"].success
    /\ results["push"].success

\* C6: the tag stage is fatal: whenever it ends with success = false (the tag
\* operation raises, or every docker tag command fails), the pipeline halts
\* and neither the sign nor the push stage is executed.
C6_TagFailureHalts ==
    Failed("tag") => Range(executed) \cap {"sign", "push"} = {}

\* C7: the stages that execute do so in the order build, test, scan, SBOM,
\* policy, tag, sign, push, each at most once, and only the stage called last
\* can still be in progress: no two stage operations overlap.
C7_SequentialFixedOrder ==
    /\ \A i, j \in 1..Len(executed) :
          i < j => StageIndex(executed[i]) < StageIndex(executed[j])
    /\ Cardinality(active) <= 1
    /\ active \subseteq (IF executed = <<>> THEN {} ELSE {executed[Len(executed)]})

C7_Witness ==
    /\ pc = "push_wait"
    /\ executed = StageOrder
    /\ active = {"push"}

\* C8: secure_pipeline never propagates an exception to its caller, also with
\* a registry given and a version string that holds no '.'.
C8_NeverRaises == pc # "raised"

\* C9: two runs of `secure` that are identical except for the outcome of the
\* SBOM, sign or push stage exit with the same code. The second invocation
\* sees every other outcome as the first did; `first` keeps the first run's
\* other outcomes and its exit code.
C9_ExitCodeIgnoresNonFatalStages ==
    (run = 2 /\ pc = "exited") => exit_code = first.exit_code

C9_Witness ==
    /\ run = 2
    /\ pc = "exited"
    /\ exit_code = 0
    /\ first.exit_code = 0
    /\ Failed("sbom")
    /\ Failed("sign")
    /\ "push" \in Range(executed)
    /\ ~results["push"].success

\* the policy stage was entered and has ended
PolicyStageEnded == Finished("policy") /\ "policy" \in DOMAIN env

\* the entry the policy stage records for the i-th policy file
PolicyEntry(i) ==
    [policy |-> policy_files[i],
     success |-> check_kyverno_policy(env["policy"][i]).success,
     output |-> check_kyverno_policy(env["policy"][i]).output]

\* C10 as claimed: with policy files and a manifest, the policy stage checks
\* every file in the given order, records exactly one entry per file in that
\* order, and policy.success holds iff every per-file check succeeded.
C10_EveryPolicyFileChecked ==
    PolicyStageEnded =>
        /\ Len(env["policy"]) = Len(policy_files)
        /\ \A i \in 1..Len(policy_files) : ~check_kyverno_policy(env["policy"][i]).raised
        /\ results["policy"].output = [i \in 1..Len(policy_files) |-> PolicyEntry(i)]
        /\ results["policy"].success =
              (\A i \in 1..Len(policy_files) : PolicyEntry(i).success)

\* C10 amended: that holds unless a per-file check raises; the stage does not
\* stop at a file whose check fails, but a check that raises ends the stage at
\* that file with policy.success = false and the error text as output.
C10_EveryPolicyFileCheckedUnlessRaise ==
    PolicyStageEnded =>
        LET outs == env["policy"]
            n == Len(outs)
        IN  /\ n >= 1
            /\ n <= Len(policy_files)
            /\ \A i \in 1..(n - 1) : ~check_kyverno_policy(outs[i]).raised
            /\ IF check_kyverno_policy(outs[n]).raised
               THEN /\ ~results["policy"].success
                    /\ results["policy"].output = check_kyverno_policy(outs[n]).output
               ELSE /\ n = Len(policy_files)
                    /\ results["policy"].output =
                          [i \in 1..Len(policy_files) |-> PolicyEntry(i)]
                    /\ results["policy"].success =
                          (\A i \in 1..Len(policy_files) : PolicyEntry(i).success)

C10_Witness ==
    /\ PolicyStageEnded
    /\ Len(policy_files) = 2
    /\ policy_files[1] # policy_files[2]
    /\ env["policy"] = <<"rule_failed", "pass">>
    /\ Len(results["policy"].output) = 2
    /\ results["policy"].output[2].success
    /\ ~results["policy"].success

\* C11: the tag stage is entered only with a registry and the push stage only
\* with push requested: without a registry no docker tag, sign or docker push
\* is issued (even with push = true), without push no docker push is issued.
C11_TagNeedsRegistryPushNeedsFlag ==
    /\ registry = <<>>
         => /\ Range(executed) \cap {"tag", "sign", "push"} = {}
            /\ Range(cmds) \cap {"docker tag", "cosign sign", "docker push"} = {}
    /\ ~push
         => /\ "push" \notin Range(executed)
            /\ "docker push" \notin Range(cmds)

C11_Witness ==
    /\ pc = "return"
    /\ registry = <<>>
    /\ push
    /\ results["scan"].success
    /\ Finished("sbom")

\* the sign stage / the push stage ran and did not succeed
SignFailed ==
    /\ "sign" \in DOMAIN env
    /\ ~sign_image(signing_key, env["sign"].ci, env["sign"].o).success

PushFailed ==
    /\ "push" \in DOMAIN env
    /\ LET r == push_docker_image(env["push"].docker, target_tags, env["push"].ok)
       IN  r.raised \/ Len(r.pushed) = 0

\* C12: sign and push are non-fatal: a signing that returns failure or raises
\* is recorded as sign.success = false and a requested push still executes; a
\* failed push is recorded as push.success = false and secure_pipeline returns.
C12_SignAndPushAreNonFatal ==
    /\ SignFailed
         => /\ ~results["sign"].success
            /\ pc # "raised"
            /\ (pc \in {"return", "exited"} /\ push) => "push" \in Range(executed)
    /\ PushFailed
         => /\ ~results["push"].success
            /\ pc \in {"return", "exited"}

C12_Witness ==
    /\ pc = "return"
    /\ SignFailed
    /\ env["sign"].o = "cosign_not_executable"
    /\ PushFailed
    /\ "docker push" \in Range(cmds)

\* --------------------------------------------------------- bump_version
BumpReturned == call.fn = "bump_version" /\ rets # <<>>

\* (major, minor, patch) of a string that is a semantic version
Numbers(s) == LET parts == split(s, ".") IN <<int(parts[1]), int(parts[2]), int(parts[3])>>

Greater(a, b) ==
    \/ a[1] > b[1]
    \/ a[1] = b[1] /\ a[2] > b[2]
    \/ a[1] = b[1] /\ a[2] = b[2] /\ a[3] > b[3]

\* what the bump of (major, minor, patch) is to be
Bumped(n, bump_type) ==
    IF bump_type = "major" THEN <<n[1] + 1, 0, 0>>
    ELSE IF bump_type = "minor" THEN <<n[1], n[2] + 1, 0>>
    ELSE <<n[1], n[2], n[3] + 1>>

\* for a semantic version bump_version returns the bumped version, which is
\* a semantic version greater than the input
BumpOfValid ==
    (BumpReturned /\ IsSemVer(call.current_version))
        => /\ ~rets[1].raised
           /\ IsSemVer(rets[1].value)
           /\ Numbers(rets[1].value) = Bumped(Numbers(call.current_version), call.bump_type)
           /\ Greater(Numbers(rets[1].value), Numbers(call.current_version))

\* C13: bump_version returns M.m.(p+1), M.(m+1).0 or (M+1).0.0 for a valid
\* semantic version M.m.p, the result is a valid semantic version strictly
\* greater than the input, and a string that is not digits.digits.digits is
\* rejected with an error.
C13_BumpVersion ==
    /\ BumpOfValid
    /\ (BumpReturned /\ ~IsSemVer(call.current_version)) => rets[1].raised

\* -------------------------------------------------- generate_docker_tags
\* base:M.m.p, base:M.m, base:M and, when asked for, base:latest
BaseTags(base_name, n, include_latest) ==
    << base_name \o Colon \o str(n[1]) \o Dot \o str(n[2]) \o Dot \o str(n[3]),
       base_name \o Colon \o str(n[1]) \o Dot \o str(n[2]),
       base_name \o Colon \o str(n[1]) >>
    \o (IF include_latest THEN << base_name \o Colon \o LatestStr >> ELSE <<>>)

TagsReturned == call.fn = "generate_docker_tags" /\ rets # <<>>

\* C14: without chainguard tags generate_docker_tags returns exactly
\* [base:M.m.p, base:M.m, base:M], followed by base:latest when include_latest
\* is set, in that order, the full version tag first.
C14_BaseTagsInOrder ==
    (TagsReturned /\ ~call.chainguard_tags)
        => \A i \in 1..Len(rets) :
              /\ ~rets[i].raised
              /\ rets[i].tags = BaseTags(call.base_name, Numbers(call.version), call.include_latest)
              /\ rets[i].tags[1] = call.base_name \o Colon \o call.version

C14_Witness ==
    /\ TagsReturned
    /\ ~call.chainguard_tags
    /\ call.include_latest
    /\ Numbers(call.version) = <<MaxComponent, 1, 0>>
    /\ Len(rets[1].tags) = 4

\* the first n elements of q are p
IsPrefix(p, q) == Len(p) <= Len(q) /\ SubSeq(q, 1, Len(p)) = p

\* C15: with chainguard tags the result has the result without them as an
\* unchanged prefix, and two calls with the same arguments return the same
\* sequence.
C15_ChainguardAppendsDeterministically ==
    (TagsReturned /\ call.chainguard_tags)
        => /\ \A i \in 1..Len(rets) :
                IsPrefix(generate_docker_tags(call.base_name, call.version, call.include_latest,
                                              FALSE, rets[i].date_str, rets[i].git.ok,
                                              rets[i].git.hash).tags,
                         rets[i].tags)
           /\ Len(rets) = 2 => rets[1].tags = rets[2].tags

\* the part of C15 that the code keeps: the base tags stay an unchanged prefix
ChainguardOnlyAppends ==
    (TagsReturned /\ call.chainguard_tags)
        => \A i \in 1..Len(rets) :
              IsPrefix(BaseTags(call.base_name, Numbers(call.version), call.include_latest),
                       rets[i].tags)

VStr == <<"v">>
ChainguardSuffix == <<"-", "c", "h", "a", "i", "n", "g", "u", "a", "r", "d">>
SecureStr == <<"s", "e", "c", "u", "r", "e">>

\* C16: with chainguard tags the result contains base:v<M.m.p>,
\* base:<M.m>-chainguard and base:secure, and when git is unavailable or the
\* repository has no commit the hash tag is left out without an error, all
\* other tags still returned.
C16_ChainguardTagSet ==
    (TagsReturned /\ call.chainguard_tags)
        => \A i \in 1..Len(rets) :
              LET n == Numbers(call.version)
                  tags == Range(rets[i].tags)
              IN  /\ call.base_name \o Colon \o VStr \o call.version \in tags
                  /\ call.base_name \o Colon \o str(n[1]) \o Dot \o str(n[2]) \o ChainguardSuffix
                        \in tags
                  /\ call.base_name \o Colon \o SecureStr \in tags
                  /\ ~rets[i].git.ok
                        => /\ ~rets[i].raised
                           /\ rets[i].tags =
                                BaseTags(call.base_name, n, call.include_latest)
                                \o << call.base_name \o Colon \o rets[i].date_str >>

\* the part of C16 that the code keeps: a failing git only leaves the hash out
HashOmittedSilently ==
    (TagsReturned /\ call.chainguard_tags)
        => \A i \in 1..Len(rets) :
              ~rets[i].git.ok
                 => /\ ~rets[i].raised
                    /\ rets[i].tags =
                         BaseTags(call.base_name, Numbers(call.version), call.include_latest)
                         \o << call.base_name \o Colon \o rets[i].date_str >>

\* ----------------------------------------------------- scan_docker_image
\* the entries of a report whose severity is among S
Entries(scan_data, S) ==
    UNION { { <<g, i>> : i \in { j \in 1..Len(scan_data[g]) : scan_data[g][j] \in S } } :
              g \in 1..Len(scan_data) }

ScanReturned == call.fn = "scan_docker_image" /\ rets # <<>> /\ call.decodable

\* C17: in JSON mode scan_docker_image counts for each severity level the
\* vulnerabilities of that level across all result groups (an entry without a
\* severity counts as UNKNOWN), passed is true exactly when the CRITICAL count
\* is 0, and a report of exactly one CRITICAL entry gives passed = false and a
\* CRITICAL count of 1.
C17_ScanCountsBySeverity ==
    ScanReturned
        => /\ DOMAIN rets[1].vulnerability_counts = SeverityLevels
           /\ \A l \in SeverityLevels \ {"UNKNOWN"} :
                 rets[1].vulnerability_counts[l] = Cardinality(Entries(call.scan_data, {l}))
           /\ rets[1].vulnerability_counts["UNKNOWN"]
                 = Cardinality(Entries(call.scan_data, {"UNKNOWN", ""}))
           /\ rets[1].passed <=> (Entries(call.scan_data, {"CRITICAL"}) = {})
           /\ call.scan_data = <<<<"CRITICAL">>>>
                 => ~rets[1].passed /\ rets[1].vulnerability_counts["CRITICAL"] = 1

C17_Witness ==
    /\ ScanReturned
    /\ call.scan_data = << <<"HIGH">>, <<"CRITICAL">> >>
    /\ ~rets[1].passed
    /\ rets[1].vulnerability_counts["CRITICAL"] = 1
    /\ rets[1].vulnerability_counts["HIGH"] = 1

\* ---------------------------------------------------- build_docker_image
BuildReturned == call.fn = "build_docker_image" /\ rets # <<>>

SignReturned == call.fn = "sign_image" /\ rets # <<>>

VerifyReturned == call.fn = "verify_image_signature" /\ rets # <<>>

\* cosign answered the --version probe
CosignInstalled == rets[1].o \notin {"cosign_missing", "cosign_not_executable"}

\* C19: sign_image without a key path succeeds only in CI; outside CI it
\* returns failure, with the "keyless signing requires CI" message when cosign
\* is installed, and issues no signing command; with a key path it issues the
\* signing command whatever the environment; verify_image_signature issues
\* the verify command with or without a key, in CI or not.
C19_KeylessSigningNeedsCI ==
    /\ SignReturned
         => /\ (rets[1].success /\ ~call.has_key) => rets[1].ci
            /\ (~call.has_key /\ ~rets[1].ci)
                  => /\ ~rets[1].success
                     /\ "cosign sign" \notin Range(rets[1].cmds)
                     /\ CosignInstalled
                           => /\ ~rets[1].raised
                              /\ rets[1].output
                                   = "Keyless signing requires CI environment or explicit key path"
            /\ (call.has_key /\ CosignInstalled)
                  => /\ "cosign sign" \in Range(rets[1].cmds)
                     /\ rets[1].success <=> (rets[1].o = "signed")
    /\ VerifyReturned
         => (CosignInstalled => "cosign verify" \in Range(rets[1].cmds))

C19_Witness ==
    /\ SignReturned
    /\ ~call.has_key
    /\ ~rets[1].ci
    /\ rets[1].o = "signed"
    /\ ~rets[1].success

\* a verification without key outside CI goes through
C19_VerifyWitness ==
    /\ VerifyReturned
    /\ ~call.has_key
    /\ ~rets[1].ci
    /\ rets[1].success

\* ---------------------------------------------------------- generate_sbom
SbomReturned == call.fn = "generate_sbom" /\ rets # <<>>

Generators == {"syft", "docker scout sbom"}

\* C20: generate_sbom uses syft when syft is installed and nothing else, even
\* when syft then fails; it uses docker scout only when syft is not installed
\* and docker scout is; with neither installed it returns failure with the
\* "No SBOM generation tools found" message and runs no generator.
C20_SbomToolFallback ==
    SbomReturned
        => /\ rets[1].syft_installed
                 => /\ Range(rets[1].cmds) \cap Generators = {"syft"}
                    /\ rets[1].success <=> rets[1].run_ok
           /\ (~rets[1].syft_installed /\ rets[1].scout_installed)
                 => /\ Range(rets[1].cmds) \cap Generators = {"docker scout sbom"}
                    /\ rets[1].success <=> rets[1].run_ok
           /\ (~rets[1].syft_installed /\ ~rets[1].scout_installed)
                 => /\ ~rets[1].success
                    /\ rets[1].output = "No SBOM generation tools found"
                    /\ Range(rets[1].cmds) \cap Generators = {}

C20_Witness ==
    /\ SbomReturned
    /\ rets[1].syft_installed
    /\ rets[1].scout_installed
    /\ ~rets[1].run_ok
    /\ ~rets[1].success

\* ------------------------------------------------- output that is not JSON
ScanUndecodable == call.fn = "scan_docker_image" /\ rets # <<>> /\ ~call.decodable

PolicyUndecodable ==
    /\ call.fn = "check_kyverno_policy"
    /\ rets # <<>>
    /\ rets[1].o \in {"undecodable_pass", "undecodable_fail"}

\* C21: when the JSON output of trivy or of kyverno cannot be decoded, the
\* scan and the policy check do not raise: they decide from the raw output
\* and still return a (passed, report) result.
C21_UndecodableOutputFallsBack ==
    /\ ScanUndecodable => ~rets[1].raised
    /\ PolicyUndecodable
         => /\ ~rets[1].raised
            /\ rets[1].success <=> (rets[1].o = "undecodable_pass")

\* the half of C21 that the code keeps: the policy check falls back
PolicyFallsBack ==
    PolicyUndecodable
        => /\ ~rets[1].raised
           /\ rets[1].success <=> (rets[1].o = "undecodable_pass")

\* ------------------------------------------------------ test_docker_image
\* two invocations that both got as far as naming a container
TestedTwice ==
    /\ call.fn = "test_docker_image"
    /\ Len(rets) = 2
    /\ \A i \in 1..2 : rets[i].o # "docker_missing"

\* C22: every invocation of the image test uses a container name distinct
\* from the name of every other invocation, in quick succession included.
C22_ContainerNamesDistinct ==
    TestedTwice => rets[1].container_name # rets[2].container_name

\* what the code keeps: invocations in different seconds get different names
NamesDistinctAcrossSeconds ==
    TestedTwice
        => (rets[1].ticks \div TicksPerSecond # rets[2].ticks \div TicksPerSecond
               => rets[1].container_name # rets[2].container_name)

\* ------------------------------------------------ update_version_in_files
UpdatedTwice == call.fn = "update_version_in_files" /\ Len(rets) = 2

\* C23: update_version_in_files is idempotent: after a second call with the
\* same version both files are as the first call left them.
C23_UpdateVersionIdempotent ==
    UpdatedTwice
        => /\ rets[2].init_py = rets[1].init_py
           /\ rets[2].setup_py = rets[1].setup_py
           /\ rets[2].ok = rets[1].ok

\* a first call that rewrote a declaration in both files
C23_Witness ==
    /\ UpdatedTwice
    /\ rets[1].ok
    /\ rets[1].init_py.content # call.init_py.content
    /\ rets[1].setup_py.content # call.setup_py.content
    /\ Len(call.init_py.content) = MaxFileLen

\* -------------------------------------------------------- validate_message
ValidateReturned == call.fn = "validate_message" /\ rets # <<>>

\* '<type>: <description>' with an allowed type, within max_length
IsTypedMessage(message) ==
    /\ Len(message) <= max_length
    /\ \E t \in DEFAULT_CONFIG.commit.rules.allowed_types :
          /\ starts_with(message, t \o <<":", " ">>)
          /\ Len(message) > Len(t) + 2

\* C24: under the default configuration validate_message accepts every
\* '<type>: <description>' with an allowed type and a length within
\* max_length, and rejects the empty message and every message whose prefix
\* before ':' is not an allowed type.
C24_ValidateMessage ==
    ValidateReturned
        => /\ IsTypedMessage(call.message) => (~rets[1].raised /\ rets[1].value)
           /\ call.message = <<>> => (~rets[1].raised /\ ~rets[1].value)
           /\ strip(split(call.message, ":")[1]) \notin DEFAULT_CONFIG.commit.rules.allowed_types
                 => (~rets[1].raised /\ ~rets[1].value)

\* what the code does: under the default configuration no message is accepted
NoMessageAccepted == ValidateReturned => ~rets[1].value

\* ------------------------------------------------- install_hook, remove_hook
HookInstalled == call.fn = "install_hook" /\ rets # <<>>

\* what the claim says of install_hook and remove_hook
HookContract ==
    /\ is_hook_enabled(call.config, call.hook_name)
          => /\ ~rets[1].raised
             /\ rets[1].file = [exists |-> TRUE, content |-> call.hook_content,
                                executable |-> TRUE]
    /\ ~is_hook_enabled(call.config, call.hook_name)
          => /\ rets[1].raised
             /\ rets[1].error = "ValueError"
             /\ rets[1].file = call.file
    /\ Len(rets) = 2 => (~rets[2].raised /\ ~rets[2].file.exists)

\* C25: install_hook for an enabled hook leaves an executable hook file with
\* the given content; for a hook that is not enabled it raises ValueError and
\* leaves the hook file as it was; remove_hook after a successful install
\* leaves no hook file.
C25_InstallAndRemoveHook == HookInstalled => HookContract

\* what the code keeps: the contract holds where the module can be imported
\* and git_dir has the / operator
HookContractWhenConstructed ==
    (HookInstalled /\ rets[1].annotations = "deferred" /\ rets[1].git_dir = "path")
        => HookContract

\* ------------------------------------------------------------ update_config
ConfigUpdated == call.fn = "update_config" /\ rets # <<>>

\* C30: update_config on one ConfigManager changes neither the configuration
\* another, independently constructed ConfigManager returns nor the
\* class-level DEFAULT_CONFIG, also when both fell back to the default.
C30_ConfigManagersIsolated ==
    ConfigUpdated
        => /\ rets[1].b = rets[1].b_before
           /\ rets[1].default = DEFAULT_CONFIG

\* what the code keeps: a manager that read its own file is isolated
IsolatedWhenLoaded ==
    (ConfigUpdated /\ call.a_loaded)
        => /\ rets[1].b = rets[1].b_before
           /\ rets[1].default = DEFAULT_CONFIG

\* -------------------------------------------------- the late pipeline stages
\* C26: the policy stage is non-fatal: when it ends with success = false (a
\* policy file fails, or an exception is caught and recorded) the pipeline
\* does not halt: a run given a registry still calls and records the tag
\* stage and, unless tagging raised, the sign stage and the requested push.
C26_PolicyFailureDoesNotHalt ==
    (Failed("policy") /\ pc = "return" /\ registry # <<>>)
        => /\ "tag" \in Range(executed)
           /\ "tag" \in DOMAIN results
           /\ env["tag"].docker
                => /\ "sign" \in Range(executed)
                   /\ push => "push" \in Range(executed)

\* a policy file failed and the run went on to push
C26_Witness ==
    /\ pc = "return"
    /\ Failed("policy")
    /\ "rule_failed" \in Range(env["policy"])
    /\ executed = <<"build", "test", "scan", "sbom", "policy", "tag", "sign", "push">>
    /\ results["push"].success

\* an exception of the policy check was recorded and the run went on to sign
C26_RaiseWitness ==
    /\ pc = "return"
    /\ Failed("policy")
    /\ "bad_shape" \in Range(env["policy"])
    /\ "sign" \in Range(executed)

\* what the stage function called for `stage` reported in this run: a result
\* with success = true, or (build, tag, push) a value returned without raising
StageReportedSuccess(stage) ==
    /\ stage \in DOMAIN env
    /\ CASE stage = "build"  -> ~build_docker_image(env["build"]).raised
         [] stage = "test"   -> LET r == test_docker_image(env["test"])
                                IN  ~r.raised /\ r.success
         [] stage = "scan"   -> LET r == scan_docker_image(env["scan"])
                                IN  ~r.raised /\ r.success
         [] stage = "sbom"   -> /\ env["sbom"] # "makedirs_failed"
                                /\ generate_sbom(env["sbom"]).success
         [] stage = "policy" -> /\ Len(env["policy"]) = Len(policy_files)
                                /\ \A k \in DOMAIN env["policy"] :
                                     LET r == check_kyverno_policy(env["policy"][k])
                                     IN  ~r.raised /\ r.success
         [] stage = "tag"    -> LET r == tag_docker_image(env["tag"].docker, target_tags,
                                                         env["tag"].ok)
                                IN  ~r.raised /\ r.tagged # <<>>
         [] stage = "sign"   -> sign_image(signing_key, env["sign"].ci, env["sign"].o).success
         [] stage = "push"   -> LET r == push_docker_image(env["push"].docker, target_tags,
                                                          env["push"].ok)
                                IN  ~r.raised /\ r.pushed # <<>>
         [] OTHER            -> FALSE

\* C27: in the result mapping, at every point of a run and so in the mapping
\* returned, an entry with success = true belongs to a stage whose operation
\* was called in this run, has returned and reported success; the entry of a
\* stage that was skipped or never reached never has success = true.
C27_SuccessMeansExecuted ==
    \A stage \in DOMAIN results :
        results[stage].success
            => /\ Finished(stage)
               /\ StageReportedSuccess(stage)

\* a returned mapping with stages that succeeded and stages that were skipped
C27_Witness ==
    /\ pc = "return"
    /\ registry = <<>>
    /\ policy_files = <<>>
    /\ results["build"].success /\ results["scan"].success /\ results["sbom"].success
    /\ ~results["policy"].success /\ ~results["sign"].success /\ ~results["push"].success
    /\ executed = <<"build", "test", "scan", "sbom">>

\* a returned mapping of a run that reached every stage
C27_FullRunWitness ==
    /\ pc = "return"
    /\ \A stage \in Range(StageOrder) : stage \in DOMAIN results /\ results[stage].success

\* the references the tag stage of this run tagged
TaggedInRun ==
    IF "tag" \in DOMAIN env
    THEN Range(tag_docker_image(env["tag"].docker, target_tags, env["tag"].ok).tagged)
    ELSE {}

\* the reference the sign stage signed: cosign exited 0 on target_tags[0]
SignedInRun ==
    IF "sign" \in DOMAIN env /\ sign_image(signing_key, env["sign"].ci, env["sign"].o).success
    THEN {target_tags[1]}
    ELSE {}

\* the references the push stage ran `docker push` on
PushAttemptedInRun ==
    IF "push" \in DOMAIN env /\ env["push"].docker
    THEN Range(target_tags)
    ELSE {}

\* C28: every image reference that the sign stage signs or the push stage
\* attempts to push was successfully tagged by the tag stage of the same run.
C28_SignedAndPushedWereTagged ==
    /\ SignedInRun \subseteq TaggedInRun
    /\ PushAttemptedInRun \subseteq TaggedInRun

\* the commands of the push command in the order the code issues them
PushSequence ==
    <<"npm run format:all">> \o commands \o <<"npm run build", "npm test", "git push">>

\* the k-th command launched by the push command did not succeed
StepFailed(k) == rets[k].raised \/ ~rets[k].success

\* C29: the push command issues `git push` only after the formatting step,
\* each Python formatting command, the build verification and the tests have
\* all succeeded, in that order; the first failing check ends the command
\* with exit code 1 and no later step is run; a target branch of main is
\* refused with exit code 1 before any external command is run.
C29_PushAfterChecks ==
    /\ Len(cmds) <= Len(PushSequence)
    /\ cmds = SubSeq(PushSequence, 1, Len(cmds))
    /\ Len(rets) = Len(cmds)
    /\ \A k \in DOMAIN rets :
        /\ rets[k].command = cmds[k]
        /\ k < Len(rets) => ~StepFailed(k)
        /\ StepFailed(k) => pc = "exited" /\ exit_code = 1
    /\ call.target_branch = "main"
        => /\ cmds = <<>>
           /\ pc \in {"push", "exited"}
           /\ pc = "exited" => exit_code = 1
    /\ exit_code = 0 => cmds = PushSequence

\* every check passed and the changes were pushed
C29_Witness ==
    /\ pc = "exited"
    /\ exit_code = 0
    /\ cmds = PushSequence
    /\ \A k \in DOMAIN rets : ~StepFailed(k)

\* the tests failed: nothing was pushed
C29_TestsFailedWitness ==
    /\ pc = "exited"
    /\ exit_code = 1
    /\ Len(cmds) = 6
    /\ cmds[6] = "npm test"
    /\ rets[6].returncode = 1
    /\ ~rets[6].raised /\ ~rets[6].success

\* main was refused
C29_MainRefusedWitness ==
    call.target_branch = "main" /\ pc = "exited" /\ exit_code = 1 /\ cmds = <<>>

============================================================================
